---------------------------- MODULE Spec2Model ----------------------------
(***************************************************************************)
(* A model of pkg/reconciler/revision/resources/queue.go: the derivation   *)
(* of the queue sidecar's resource requirements (createQueueResources,     *)
(* computeResourceRequirements, fractionFromPercentage) and the            *)
(* translation of the user's readiness probe                               *)
(* (applyReadinessProbeDefaultsForExec, makeQueueContainer).               *)
(*                                                                         *)
(* The functions are pure, but for the two variables of the process       *)
(* environment that makeQueueContainer reads, which the model passes as an *)
(* argument.  Each specification draws the arguments of one function from  *)
(* bounded sets in its initial states and has one action that applies the  *)
(* function and records its locals and results; a call that panics records *)
(* the panic in place of a result.                                         *)
(*                                                                         *)
(* Numbers.  TLC's integers are 32 bits wide, the code's are int64 and     *)
(* float64.  An int64 magnitude is therefore a little-endian sequence of   *)
(* 15-bit limbs with no leading zero limb (<<>> is 0), and a float64 is a  *)
(* sign, a 53-bit mantissa and a binary exponent, with every operation     *)
(* rounded to nearest, ties to even, as IEEE 754 prescribes.               *)
(***************************************************************************)
EXTENDS Integers, Sequences, FiniteSets, TLC

VARIABLES
    fn,     \* the function the behaviour is an application of
    pc,     \* "call": arguments bound, body not run; "return": body has run
    args,   \* the function's arguments
    ret     \* the function's locals and results once pc = "return"

vars == <<fn, pc, args, ret>>

\* The nil pointer, the nil map and the nil error.
Nil == [nil |-> TRUE]

-----------------------------------------------------------------------------
(* Natural numbers of any size: little-endian limbs to the base 2^15.      *)
(* This is the arithmetic the model is written in; the operations of the   *)
(* program start with int64 below.                                         *)

Base == 2^15

\* The recursions below halve their argument: their depth is the logarithm
\* of its length.

\* a without its leading zero limbs.
Norm(a) ==
    IF \A i \in 1..Len(a) : a[i] = 0 THEN <<>>
    ELSE SubSeq(a, 1, CHOOSE i \in 1..Len(a) :
                          a[i] # 0 /\ \A j \in (i + 1)..Len(a) : a[j] = 0)

RECURSIVE Big(_)
Big(n) == IF n = 0 THEN <<>> ELSE <<n % Base>> \o Big(n \div Base)

\* a with zero limbs up to the length n.
Pad(a, n) == [i \in 1..n |-> IF i <= Len(a) THEN a[i] ELSE 0]

\* The lower and the upper half of the limbs.
Lo(a) == SubSeq(a, 1, Len(a) \div 2)
Hi(a) == SubSeq(a, (Len(a) \div 2) + 1, Len(a))

\* -1, 0 or 1 as a < b, a = b or a > b.
Cmp(a, b) ==
    IF Len(a) < Len(b) THEN -1
    ELSE IF Len(a) > Len(b) THEN 1
    ELSE IF a = b THEN 0
    ELSE LET i == CHOOSE i \in 1..Len(a) :
                      a[i] # b[i] /\ \A j \in (i + 1)..Len(a) : a[j] = b[j]
         IN  IF a[i] < b[i] THEN -1 ELSE 1

Leq(a, b) == Cmp(a, b) <= 0
Lt(a, b) == Cmp(a, b) < 0

\* a + b + c limb by limb, for a and b of one length: the limbs and the
\* carry out.
RECURSIVE AddCarry(_, _, _)
AddCarry(a, b, c) ==
    IF a = <<>> THEN [limbs |-> <<>>, carry |-> c]
    ELSE IF Len(a) = 1
    THEN [limbs |-> <<(a[1] + b[1] + c) % Base>>,
          carry |-> (a[1] + b[1] + c) \div Base]
    ELSE LET lo == AddCarry(Lo(a), Lo(b), c)
             hi == AddCarry(Hi(a), Hi(b), lo.carry)
         IN  [limbs |-> lo.limbs \o hi.limbs, carry |-> hi.carry]

\* a + b.
Add(a, b) ==
    LET n == IF Len(a) >= Len(b) THEN Len(a) ELSE Len(b)
        r == AddCarry(Pad(a, n), Pad(b, n), 0)
    IN  Norm(r.limbs \o <<r.carry>>)

\* a - b - br limb by limb, for a and b of one length: the limbs and the
\* borrow out.
RECURSIVE SubBorrow(_, _, _)
SubBorrow(a, b, br) ==
    IF a = <<>> THEN [limbs |-> <<>>, borrow |-> br]
    ELSE IF Len(a) = 1
    THEN [limbs  |-> <<(a[1] - b[1] - br + Base) % Base>>,
          borrow |-> IF a[1] - b[1] - br < 0 THEN 1 ELSE 0]
    ELSE LET lo == SubBorrow(Lo(a), Lo(b), br)
             hi == SubBorrow(Hi(a), Hi(b), lo.borrow)
         IN  [limbs |-> lo.limbs \o hi.limbs, borrow |-> hi.borrow]

\* a - b, for a >= b.
Sub(a, b) == Norm(SubBorrow(a, Pad(b, Len(a)), 0).limbs)

\* a * k + c limb by limb: the limbs and the carry out.
RECURSIVE MulSmallCarry(_, _, _)
MulSmallCarry(a, k, c) ==
    IF a = <<>> THEN [limbs |-> <<>>, carry |-> c]
    ELSE IF Len(a) = 1
    THEN [limbs |-> <<(a[1] * k + c) % Base>>,
          carry |-> (a[1] * k + c) \div Base]
    ELSE LET lo == MulSmallCarry(Lo(a), k, c)
             hi == MulSmallCarry(Hi(a), k, lo.carry)
         IN  [limbs |-> lo.limbs \o hi.limbs, carry |-> hi.carry]

\* a * k, for 0 <= k <= Base.
MulSmall(a, k) ==
    IF k = 0 THEN <<>>
    ELSE LET r == MulSmallCarry(a, k, 0)
         IN  Norm(r.limbs \o <<r.carry>>)

\* a * b.
RECURSIVE Mul(_, _)
Mul(a, b) ==
    IF a = <<>> \/ b = <<>> THEN <<>>
    ELSE IF Len(b) = 1 THEN MulSmall(a, b[1])
    ELSE Norm(Add(Mul(a, Lo(b)),
                  [i \in 1..Len(Lo(b)) |-> 0] \o Mul(a, Hi(b))))

\* The limbs of a divided by k from the top down, after the remainder r:
\* the quotient's limbs, the top one first, and the remainder.
RECURSIVE DivRem(_, _, _)
DivRem(a, k, r) ==
    IF a = <<>> THEN [quo |-> <<>>, rem |-> r]
    ELSE IF Len(a) = 1
    THEN [quo |-> <<(r * Base + a[1]) \div k>>, rem |-> (r * Base + a[1]) % k]
    ELSE LET hi == DivRem(Hi(a), k, r)
             lo == DivRem(Lo(a), k, hi.rem)
         IN  [quo |-> hi.quo \o lo.quo, rem |-> lo.rem]

\* The quotient's limbs put in the order of the magnitudes, the lowest
\* first.
DivModLimbs(r) ==
    [quo |-> Norm([i \in 1..Len(r.quo) |-> r.quo[Len(r.quo) + 1 - i]]),
     rem |-> r.rem]

\* The quotient and the remainder of a by k, for 1 <= k <= Base.
DivModSmall(a, k) == DivModLimbs(DivRem(a, k, 0))

DivSmall(a, k) == DivModSmall(a, k).quo

RECURSIVE BitLenLimb(_)
BitLenLimb(x) == IF x = 0 THEN 0 ELSE 1 + BitLenLimb(x \div 2)

BitLen(a) == IF a = <<>> THEN 0 ELSE 15 * (Len(a) - 1) + BitLenLimb(a[Len(a)])

ShiftLeft(a, s) ==
    IF a = <<>> THEN <<>>
    ELSE [i \in 1..(s \div 15) |-> 0] \o MulSmall(a, 2^(s % 15))

ShiftRight(a, s) ==
    IF s \div 15 >= Len(a) THEN <<>>
    ELSE DivSmall(SubSeq(a, (s \div 15) + 1, Len(a)), 2^(s % 15))

\* a mod 2^s.
LowBits(a, s) == Sub(a, ShiftLeft(ShiftRight(a, s), s))

Pow2(s) == ShiftLeft(<<1>>, s)


-----------------------------------------------------------------------------
(* int64: a sign and a magnitude.                                          *)

Int64(neg, mag) == [neg |-> neg /\ mag # <<>>, mag |-> mag]

\* math.MaxInt64 = 2^63 - 1.
MaxInt64 == Sub(Pow2(63), <<1>>)

\* a < b on int64 values.
Int64Less(a, b) ==
    IF a.neg /\ ~b.neg THEN TRUE
    ELSE IF ~a.neg /\ b.neg THEN FALSE
    ELSE IF a.neg THEN Lt(b.mag, a.mag)
    ELSE Lt(a.mag, b.mag)

InInt64(a) == IF a.neg THEN Leq(a.mag, Pow2(63)) ELSE Leq(a.mag, MaxInt64)

\* math.MinInt64 = -2^63.
MinInt64 == Int64(TRUE, Pow2(63))

-----------------------------------------------------------------------------
(* float64.  A finite value is (-1)^neg * man * 2^exp: 2^52 <= man < 2^53  *)
(* and -1074 <= exp <= 971 for a normal number, man < 2^52 and exp = -1074 *)
(* for a subnormal one, man = 0 and exp = 0 for a zero.  class tells the   *)
(* finite values from the infinities and NaN.                              *)

FloatZero(neg) == [class |-> "finite", neg |-> neg, man |-> <<>>, exp |-> 0]

FloatInf(neg) == [class |-> "inf", neg |-> neg, man |-> <<>>, exp |-> 0]

FloatNaN == [class |-> "nan", neg |-> FALSE, man |-> <<>>, exp |-> 0]

\* The exponent of the last bit of the smallest and of the largest float64.
MinExp == -1074
MaxExp == 971

\* The mantissa m at the exponent e, renormalised when rounding up carried
\* it to 2^53; a zero when nothing is left, an infinity past the largest
\* float64.
RoundCarry(neg, m, e) ==
    IF m = <<>> THEN FloatZero(neg)
    ELSE IF BitLen(m) = 54
    THEN (IF e + 1 > MaxExp THEN FloatInf(neg)
          ELSE [class |-> "finite", neg |-> neg, man |-> Pow2(52),
                exp |-> e + 1])
    ELSE IF e > MaxExp THEN FloatInf(neg)
    ELSE [class |-> "finite", neg |-> neg, man |-> m, exp |-> e]

\* Round to nearest, ties to even: c compares the dropped bits with a half,
\* sticky says that the division left a remainder below them.
RoundUp(neg, m, c, sticky, e) ==
    RoundCarry(neg,
               IF c = 1 \/ (c = 0 /\ (sticky \/ (m # <<>> /\ m[1] % 2 = 1)))
               THEN Add(m, <<1>>) ELSE m,
               e)

\* The quotient q, whose last bit is at the exponent e, without its drop
\* last bits.
RoundDropped(neg, q, drop, sticky, e) ==
    RoundUp(neg, ShiftRight(q, drop),
            Cmp(LowBits(q, drop), Pow2(drop - 1)), sticky, e + drop)

\* dm holds the quotient, of 55 bits or more, and whether a remainder is
\* left.  The bits to drop are all but the 53 leading ones, and more where
\* the value is subnormal.
RoundQuotient(neg, dm, e) ==
    RoundDropped(neg, dm.quo,
                 IF BitLen(dm.quo) - 53 >= MinExp - e
                 THEN BitLen(dm.quo) - 53 ELSE MinExp - e,
                 dm.rem # 0, e)

\* The power of two a numerator of so many bits is scaled by for its
\* quotient to keep 55 bits and more.
ScaleOf(bits) == IF bits >= 70 THEN 0 ELSE 70 - bits

\* The float64 nearest to (-1)^neg * (n / d) * 2^e, ties to even;
\* 1 <= d <= 2^15.
RoundRat(neg, n, d, e) ==
    IF n = <<>> THEN FloatZero(neg)
    ELSE RoundQuotient(neg,
                       DivModSmall(ShiftLeft(n, ScaleOf(BitLen(n))), d),
                       e - ScaleOf(BitLen(n)))

\* float64(x) for an int64 x.
FloatOfInt64(x) == RoundRat(x.neg, x.mag, 1, 0)

\* x * y.
FloatMul(x, y) ==
    IF x.class = "nan" \/ y.class = "nan" THEN FloatNaN
    ELSE IF x.class = "inf" \/ y.class = "inf"
    THEN (IF (x.class = "finite" /\ x.man = <<>>)
               \/ (y.class = "finite" /\ y.man = <<>>)
          THEN FloatNaN
          ELSE FloatInf(x.neg # y.neg))
    ELSE RoundRat(x.neg # y.neg, Mul(x.man, y.man), 1, x.exp + y.exp)

\* x / d for a small positive integer d.
FloatDivSmall(x, d) ==
    IF x.class # "finite" THEN x ELSE RoundRat(x.neg, x.man, d, x.exp)

\* x < y on the magnitudes of finite values.
MagLess(a, b) ==
    IF a.man = <<>> THEN b.man # <<>>
    ELSE IF b.man = <<>> THEN FALSE
    ELSE IF a.exp # b.exp THEN a.exp < b.exp
    ELSE Lt(a.man, b.man)

\* x < y: false when either is NaN, and for the two zeros.
FloatLess(x, y) ==
    IF x.class = "nan" \/ y.class = "nan" THEN FALSE
    ELSE IF x.class = "inf" THEN x.neg /\ ~(y.class = "inf" /\ y.neg)
    ELSE IF y.class = "inf" THEN ~y.neg
    ELSE IF x.man = <<>> /\ y.man = <<>> THEN FALSE
    ELSE IF x.neg /\ ~y.neg THEN TRUE
    ELSE IF ~x.neg /\ y.neg THEN FALSE
    ELSE IF x.neg THEN MagLess(y, x)
    ELSE MagLess(x, y)

\* A finite x cut to a whole number, towards zero.
TruncToInt64(x) ==
    Int64(x.neg, IF x.exp >= 0 THEN ShiftLeft(x.man, x.exp)
                 ELSE ShiftRight(x.man, -x.exp))

-----------------------------------------------------------------------------
(* strconv.ParseFloat and strconv.Itoa.  A string that is converted is a    *)
(* sequence of one-character strings.  ParseFloat reads the special values *)
(* (inf, infinity, nan), decimal numbers with an optional exponent and     *)
(* hexadecimal numbers with a binary exponent, with underscores between    *)
(* digits, and rounds the exact value to the nearest float64.              *)

DigitChars == <<"0", "1", "2", "3", "4", "5", "6", "7", "8", "9">>

IsDigit(c) == \E i \in 1..10 : DigitChars[i] = c

DigitVal(c) == (CHOOSE i \in 1..10 : DigitChars[i] = c) - 1

UpperChars ==
    <<"A", "B", "C", "D", "E", "F", "G", "H", "I", "J", "K", "L", "M",
      "N", "O", "P", "Q", "R", "S", "T", "U", "V", "W", "X", "Y", "Z">>

LowerChars ==
    <<"a", "b", "c", "d", "e", "f", "g", "h", "i", "j", "k", "l", "m",
      "n", "o", "p", "q", "r", "s", "t", "u", "v", "w", "x", "y", "z">>

\* lower(c)
Lower(c) ==
    IF \E i \in 1..26 : UpperChars[i] = c
    THEN LowerChars[CHOOSE i \in 1..26 : UpperChars[i] = c]
    ELSE c

LowerString(s) == [i \in 1..Len(s) |-> Lower(s[i])]

\* A digit of the base: 0-9, and a-f in a hexadecimal number.
IsBaseDigit(c, hex) ==
    IsDigit(c) \/ (hex /\ \E i \in 1..6 : LowerChars[i] = Lower(c))

\* The value of a digit, a-f being 10 to 15.
BaseDigitVal(c) ==
    IF IsDigit(c) THEN DigitVal(c)
    ELSE 9 + (CHOOSE i \in 1..6 : LowerChars[i] = Lower(c))

\* n * k^e, for 0 <= k <= Base: one half of the factors, then the other on
\* the value of the first.
RECURSIVE MulPow(_, _, _)
MulPow(n, k, e) ==
    IF e = 0 THEN n
    ELSE IF e = 1 THEN MulSmall(n, k)
    ELSE CHOOSE r \in {MulPow(half, k, e - (e \div 2)) :
                           half \in {MulPow(n, k, e \div 2)}} : TRUE

\* The number the digits ds spell in the base.
RECURSIVE DigitsToBig(_, _)
DigitsToBig(ds, base) ==
    IF ds = <<>> THEN <<>>
    ELSE IF Len(ds) = 1 THEN Big(BaseDigitVal(ds[1]))
    ELSE Add(MulPow(DigitsToBig(Lo(ds), base), base, Len(Hi(ds))),
             DigitsToBig(Hi(ds), base))

\* The exponent the digits ds spell, after e: past 10000 no digit is added.
RECURSIVE ExponentOf(_, _)
ExponentOf(ds, e) ==
    IF ds = <<>> THEN e
    ELSE ExponentOf(Tail(ds),
                    IF e < 10000 THEN e * 10 + DigitVal(Head(ds)) ELSE e)

\* special: the strings read as an infinity or as NaN, whatever the case.
SpecialInf ==
    {<<"i", "n", "f">>, <<"i", "n", "f", "i", "n", "i", "t", "y">>}

IsSign(c) == c = "+" \/ c = "-"

\* underscoreOK: an underscore follows a digit or the base prefix and a
\* digit follows it.  p is the index of the last character of the prefix, 0
\* without one.
underscoreOK(s, p, hex) ==
    \A i \in 1..Len(s) :
        s[i] = "_" =>
            /\ i > 1
            /\ IsBaseDigit(s[i - 1], hex) \/ i - 1 = p
            /\ i < Len(s)
            /\ IsBaseDigit(s[i + 1], hex)

\* The least of a set of numbers.
Least(S) == CHOOSE i \in S : \A j \in S : i <= j

\* The index from m on where the run of the characters of the mantissa
\* ends: the first character that is no digit, underscore or point, or the
\* second point.
MantissaEnd(s, m, hex) ==
    Least({i \in m..(Len(s) + 1) :
               \/ i = Len(s) + 1
               \/ ~(s[i] = "_" \/ s[i] = "." \/ IsBaseDigit(s[i], hex))
               \/ s[i] = "." /\ \E j \in m..(i - 1) : s[j] = "."})

\* The index from m on where the run of digits and underscores of the
\* exponent ends.
ExponentEnd(s, m) ==
    Least({i \in m..(Len(s) + 1) :
               i = Len(s) + 1 \/ ~(s[i] = "_" \/ IsDigit(s[i]))})

\* The exponent part that starts at the index i (the character e or p):
\* whether it is well formed, its value and the index after it.
readExponent(s, i) ==
    LET j == IF i + 1 <= Len(s) /\ IsSign(s[i + 1]) THEN i + 2 ELSE i + 1
    IN  IF j > Len(s) \/ ~IsDigit(s[j]) THEN [ok |-> FALSE, e |-> 0, i |-> i]
        ELSE [ok |-> TRUE,
              e  |-> (IF s[i + 1] = "-" THEN -1 ELSE 1)
                         * ExponentOf(SelectSeq(SubSeq(s, j,
                                                       ExponentEnd(s, j) - 1),
                                                IsDigit), 0),
              i  |-> ExponentEnd(s, j)]

\* The parts of a number whose mantissa starts at the index m and ends
\* before the index n.
readMantissa(s, m, n, hex) ==
    LET mant   == SubSeq(s, m, n - 1)
        points == {i \in 1..Len(mant) : mant[i] = "."}
        IsMantDigit(c) == IsBaseDigit(c, hex)
        after  == IF points = {} THEN <<>>
                  ELSE SubSeq(mant, (CHOOSE i \in points : TRUE) + 1,
                              Len(mant))
    IN  [digits |-> SelectSeq(mant, IsMantDigit),
         nfrac  |-> Len(SelectSeq(after, IsMantDigit))]

\* readFloat: whether s is a number up to its end, and then its sign, its
\* base, the digits of its mantissa, how many of them follow the point,
\* and its exponent.
readFloat(s) ==
    LET b    == IF s # <<>> /\ IsSign(s[1]) THEN 2 ELSE 1
        hex  == b + 2 <= Len(s) /\ s[b] = "0" /\ Lower(s[b + 1]) = "x"
        m    == IF hex THEN b + 2 ELSE b
        n    == MantissaEnd(s, m, hex)
        mant == readMantissa(s, m, n, hex)
        hasExp == n <= Len(s) /\ Lower(s[n]) = (IF hex THEN "p" ELSE "e")
        ex   == IF hasExp THEN readExponent(s, n)
                ELSE [ok |-> ~hex, e |-> 0, i |-> n]
    IN  [ok     |-> /\ mant.digits # <<>>
                    /\ ex.ok
                    /\ ex.i = Len(s) + 1
                    /\ underscoreOK(s, IF hex THEN b + 1 ELSE 0, hex),
         neg    |-> s # <<>> /\ s[1] = "-",
         hex    |-> hex,
         digits |-> mant.digits,
         nfrac  |-> mant.nfrac,
         e      |-> ex.e]

\* Whether either division left a remainder.
Sticky(first, second) ==
    [quo |-> second.quo,
     rem |-> IF first.rem # 0 \/ second.rem # 0 THEN 1 ELSE 0]

\* The quotient of n by 10^k, and rem # 0 when a remainder is left.
RECURSIVE DivPow10(_, _)
DivPow10(n, k) ==
    IF k <= 4 THEN DivModSmall(n, 10^k)
    ELSE CHOOSE r \in {Sticky(first, DivPow10(first.quo, k - (k \div 2))) :
                           first \in {DivPow10(n, k \div 2)}} : TRUE

\* The float64 nearest to n * 10^k, for the n of nd decimal digits: an
\* infinity past 10^310, a zero below 10^-330.  A negative k divides n,
\* scaled by a power of two that leaves the quotient 55 bits and more.
RoundDecimal(neg, n, nd, k) ==
    IF n = <<>> THEN FloatZero(neg)
    ELSE IF nd + k > 310 THEN FloatInf(neg)
    ELSE IF nd + k < -330 THEN FloatZero(neg)
    ELSE IF k >= 0 THEN RoundRat(neg, MulPow(n, 10, k), 1, 0)
    ELSE RoundQuotient(neg,
                       DivPow10(ShiftLeft(n, ScaleOf(BitLen(n)) + 4 * (-k)),
                                -k),
                       -(ScaleOf(BitLen(n)) + 4 * (-k)))

\* The float64 of the number readFloat has read; the decimal digits are
\* counted without the leading zeros.
floatOfNumber(r) ==
    IF r.hex
    THEN RoundRat(r.neg, DigitsToBig(r.digits, 16), 1,
                  r.e - 4 * r.nfrac)
    ELSE RoundDecimal(r.neg, DigitsToBig(r.digits, 10),
                      Len(r.digits) + 1
                          - Least({i \in 1..(Len(r.digits) + 1) :
                                       \/ i = Len(r.digits) + 1
                                       \/ r.digits[i] # "0"}),
                      r.e - r.nfrac)

\* strconv.ParseFloat(s, 64): the value and whether err == nil.  A syntax
\* error returns the value 0, a number out of the float64 range the
\* infinity and a range error.
ParseFloat(s) ==
    IF LowerString(s) = <<"n", "a", "n">>
    THEN [value |-> FloatNaN, ok |-> TRUE]
    ELSE IF LowerString(s) \in SpecialInf
    THEN [value |-> FloatInf(FALSE), ok |-> TRUE]
    ELSE IF s # <<>> /\ IsSign(s[1]) /\ LowerString(Tail(s)) \in SpecialInf
    THEN [value |-> FloatInf(s[1] = "-"), ok |-> TRUE]
    ELSE IF readFloat(s).ok
    THEN LET value == floatOfNumber(readFloat(s))
         IN  [value |-> value, ok |-> value.class = "finite"]
    ELSE [value |-> FloatZero(FALSE), ok |-> FALSE]

RECURSIVE Itoa(_)
\* strconv.Itoa
Itoa(n) ==
    IF n < 0 THEN <<"-">> \o Itoa(-n)
    ELSE IF n < 10 THEN <<DigitChars[n + 1]>>
    ELSE Itoa(n \div 10) \o <<DigitChars[(n % 10) + 1]>>

-----------------------------------------------------------------------------------------------------------------------------------------------------
(* resource.Quantity.  A quantity holds its amount as an int64Amount, i:   *)
(* an int64 value at a power of ten, scale (-3 for milli-units, 0 for      *)
(* units, 3 for k), or, where the digits do not fit an int64Amount, as an  *)
(* inf.Dec, d: an unbounded unscaled integer and the number of decimals,   *)
(* scale.  d is Nil where the amount is held in i.  ParseQuantity rounds   *)
(* every inf.Dec it returns to nine decimals.                              *)

\* Quantity{i: int64Amount{value, scale}}
Int64Quantity(neg, value, scale) ==
    [i |-> [value |-> Int64(neg, value), scale |-> scale], d |-> Nil]

\* Quantity{d: infDecAmount{inf.NewDec(unscaled, scale)}}
DecQuantity(neg, unscaled, scale) ==
    [i |-> [value |-> Int64(FALSE, <<>>), scale |-> 0],
     d |-> [unscaled |-> Int64(neg, unscaled), scale |-> scale]]

\* resource.Quantity{}
ZeroQuantity == Int64Quantity(FALSE, <<>>, 0)

\* q.IsZero()
IsZero(q) ==
    IF q.d # Nil THEN q.d.unscaled.mag = <<>> ELSE q.i.value.mag = <<>>

\* big.Int.Int64(), and the int64 a product wraps to: the low 64 bits of
\* the magnitude read as an int64, and negated, within the 64 bits, for a
\* number below zero.
BigInt64(neg, mag) ==
    CHOOSE r \in {IF neg /\ v # MinInt64 THEN Int64(~v.neg, v.mag) ELSE v :
                      v \in {IF Lt(low, Pow2(63)) THEN Int64(FALSE, low)
                             ELSE Int64(TRUE, Sub(Pow2(64), low)) :
                                 low \in {LowBits(mag, 64)}}} : TRUE

\* int64MultiplyScale(a, b) for b > 1, and int64MultiplyScale10, 100 and
\* 1000: c = a * b in int64, wrapped, and ok = (c / b == a), which holds
\* when the product is an int64; 0 and not ok for math.MinInt64.
int64MultiplyScale(a, b) ==
    IF a.mag = <<>> \/ a = Int64(FALSE, <<1>>)
    THEN [value |-> Int64(FALSE, Mul(a.mag, b)), ok |-> TRUE]
    ELSE IF a = MinInt64 THEN [value |-> Int64(FALSE, <<>>), ok |-> FALSE]
    ELSE [value |-> BigInt64(a.neg, Mul(a.mag, b)),
          ok    |-> InInt64(Int64(a.neg, Mul(a.mag, b)))]

\* The default case of positiveScaleInt64: the loop from i to scale, which
\* multiplies by 10 and returns 0 at the first product that is not ok.
RECURSIVE positiveScaleLoop(_, _, _)
positiveScaleLoop(value, i, scale) ==
    IF i >= scale THEN value
    ELSE IF ~int64MultiplyScale(value, <<10>>).ok THEN Int64(FALSE, <<>>)
    ELSE positiveScaleLoop(int64MultiplyScale(value, <<10>>).value, i + 1,
                           scale)

\* positiveScaleInt64(base, scale), its ok dropped: base * 10^scale.  The
\* scales 1, 2, 3, 6 and 9 multiply once and return the product as it
\* wrapped; the other scales multiply by 10 in a loop.
positiveScaleInt64(base, scale) ==
    IF scale = 0 THEN base
    ELSE IF scale \in {1, 2, 3, 6, 9}
    THEN int64MultiplyScale(base, MulPow(<<1>>, 10, scale)).value
    ELSE positiveScaleLoop(base, 0, scale)

\* The loop of negativeScaleInt64 from i to scale: value / 10 at each step,
\* fraction once a digit that is not 0 was dropped; 1 or -1 for a value
\* that reaches 0 with a fraction, and at the end one more away from zero
\* with a fraction.
RECURSIVE negativeScaleLoop(_, _, _, _, _)
negativeScaleLoop(base, value, fraction, i, scale) ==
    IF i >= scale
    THEN (IF fraction THEN Int64(base.neg, Add(value.mag, <<1>>)) ELSE value)
    ELSE IF DivSmall(value.mag, 10) = <<>>
    THEN (IF fraction \/ DivModSmall(value.mag, 10).rem # 0
          THEN Int64(base.neg, <<1>>) ELSE Int64(FALSE, <<>>))
    ELSE negativeScaleLoop(base, Int64(value.neg, DivSmall(value.mag, 10)),
                           fraction \/ DivModSmall(value.mag, 10).rem # 0,
                           i + 1, scale)

\* negativeScaleInt64(base, scale), its exact dropped: base / 10^scale,
\* rounded away from zero.
negativeScaleInt64(base, scale) ==
    IF scale = 0 THEN base
    ELSE negativeScaleLoop(base, base, FALSE, 0, scale)

\* int64Amount.AsScaledInt64(scale), its ok dropped.
AsScaledInt64(a, scale) ==
    IF a.scale < scale THEN negativeScaleInt64(a.value, scale - a.scale)
    ELSE positiveScaleInt64(a.value, a.scale - scale)

\* int64 result + 1 when the division left a remainder.
AddRemainder(result, rem) ==
    IF rem = 0 THEN result
    ELSE IF result.neg THEN Int64(TRUE, Sub(result.mag, <<1>>))
    ELSE Int64(FALSE, Add(result.mag, <<1>>))

\* scaledValue(unscaled, scale, newScale) for dif = scale - newScale >= 0,
\* as it is for the nine decimals of a parsed quantity.  The fast path, for
\* an unscaled value below math.MaxInt64 (every value below zero is) and
\* dif < 19, divides the low 64 bits as int64 and adds 1 on a remainder.
\* The other path divides the unbounded value, adds 1 to the floor of the
\* quotient on a remainder, and returns the low 64 bits.
scaledValue(unscaled, dif) ==
    IF dif = 0 THEN BigInt64(unscaled.neg, unscaled.mag)
    ELSE IF (unscaled.neg \/ Lt(unscaled.mag, MaxInt64)) /\ dif < 19
    THEN CHOOSE r \in {AddRemainder(Int64(u.neg, DivPow10(u.mag, dif).quo),
                                    DivPow10(u.mag, dif).rem) :
                           u \in {BigInt64(unscaled.neg, unscaled.mag)}} : TRUE
    ELSE CHOOSE r \in {BigInt64(unscaled.neg,
                                IF ~unscaled.neg /\ dm.rem # 0
                                THEN Add(dm.quo, <<1>>) ELSE dm.quo) :
                           dm \in {DivPow10(unscaled.mag, dif)}} : TRUE

\* q.ScaledValue(scale): the inf.Scale of a Scale is its negation.
ScaledValue(q, scale) ==
    IF q.d = Nil THEN AsScaledInt64(q.i, scale)
    ELSE scaledValue(q.d.unscaled, q.d.scale + scale)

\* q.Value()
Value(q) == ScaledValue(q, 0)

\* q.MilliValue()
MilliValue(q) == ScaledValue(q, -3)

\* resource.NewMilliQuantity(v, resource.BinarySI)
NewMilliQuantity(v) == Int64Quantity(v.neg, v.mag, -3)

\* q.AsDec(): the unscaled value and the number of decimals.
AsDec(q) ==
    IF q.d # Nil THEN q.d
    ELSE [unscaled |-> q.i.value, scale |-> -q.i.scale]

\* a.Cmp(b) < 0: the amounts compared at the larger number of decimals.
QuantityLess(a, b) ==
    IF AsDec(a).scale >= AsDec(b).scale
    THEN Int64Less(AsDec(a).unscaled,
                   Int64(AsDec(b).unscaled.neg,
                         MulPow(AsDec(b).unscaled.mag, 10,
                                AsDec(a).scale - AsDec(b).scale)))
    ELSE Int64Less(Int64(AsDec(a).unscaled.neg,
                         MulPow(AsDec(a).unscaled.mag, 10,
                                AsDec(b).scale - AsDec(a).scale)),
                   AsDec(b).unscaled)

\* resourceBoundary.applyBoundary: the quantity clamped into [min, max].
applyBoundary(boundary, resource) ==
    LET r1 == IF QuantityLess(resource, boundary.min) THEN boundary.min
              ELSE resource
    IN  IF QuantityLess(boundary.max, r1) THEN boundary.max ELSE r1

-----------------------------------------------------------------------------
(* computeResourceRequirements                                             *)

scaledValueOf(resourceQuantity) == Value(resourceQuantity)

\* math.MaxInt64 - 1 unless the value in whole units is below
\* math.MaxInt64 / 1000.
scaledMilliValueOf(resourceQuantity) ==
    IF Int64Less(scaledValueOf(resourceQuantity),
                 Int64(FALSE, DivSmall(MaxInt64, 1000)))
    THEN MilliValue(resourceQuantity)
    ELSE Int64(FALSE, Sub(MaxInt64, <<1>>))

percentageValueOf(scaledMilliValue, fraction) ==
    FloatMul(FloatOfInt64(scaledMilliValue), fraction)

\* What int64(x) gives for an x outside the int64 range is left to the
\* implementation: the smallest int64 on amd64 and arm64, the largest on
\* targets whose conversion instruction answers an invalid operand so.
OutOfRangeConversions == {MinInt64, Int64(FALSE, MaxInt64)}

\* A plausible slip: the conversion rounds away from zero.
TruncToInt64AwayFromZero(x, outOfRange) ==
    LET t == IF x.exp >= 0 THEN ShiftLeft(x.man, x.exp)
             ELSE ShiftRight(x.man, -x.exp)
        whole == x.exp >= 0 \/ LowBits(x.man, -x.exp) = <<>>
    IN  Int64(x.neg, IF whole THEN t ELSE Add(t, <<1>>))

\* int64(percentageValue): truncation towards zero within the int64 range,
\* and outOfRange, the value of this build, outside it.
ConvertToInt64(x, outOfRange) ==
    IF x.class = "finite" /\ InInt64(TruncToInt64(x)) THEN TruncToInt64(x)
    ELSE outOfRange

\* math.MaxInt64 unless percentageValue < float64(math.MaxInt64) = 2^63.
newValueOf(percentageValue, outOfRange) ==
    IF FloatLess(percentageValue, FloatOfInt64(Int64(FALSE, MaxInt64)))
    THEN ConvertToInt64(percentageValue, outOfRange)
    ELSE Int64(FALSE, MaxInt64)

newquantityOf(newValue, boundary) ==
    applyBoundary(boundary, NewMilliQuantity(newValue))

\* The body past the IsZero check, with its locals.
computeNonZero(resourceQuantity, fraction, boundary, outOfRange) ==
    LET scaledMilliValue == scaledMilliValueOf(resourceQuantity)
        percentageValue  == percentageValueOf(scaledMilliValue, fraction)
        newValue         == newValueOf(percentageValue, outOfRange)
    IN  [ok               |-> TRUE,
         quantity         |-> newquantityOf(newValue, boundary),
         scaledValue      |-> scaledValueOf(resourceQuantity),
         scaledMilliValue |-> scaledMilliValue,
         percentageValue  |-> percentageValue,
         newValue         |-> newValue]

\* A plausible slip: no early return for a zero quantity.
computeResourceRequirementsNoZeroCheck(resourceQuantity, fraction, boundary, outOfRange) ==
    computeNonZero(resourceQuantity, fraction, boundary, outOfRange)

computeResourceRequirements(resourceQuantity, fraction, boundary, outOfRange) ==
    IF IsZero(resourceQuantity)
    THEN [ok               |-> FALSE,
          quantity         |-> ZeroQuantity,
          scaledValue      |-> Nil,
          scaledMilliValue |-> Nil,
          percentageValue  |-> Nil,
          newValue         |-> Nil]
    ELSE computeNonZero(resourceQuantity, fraction, boundary, outOfRange)

-----------------------------------------------------------------------------
(* fractionFromPercentage                                                  *)

\* serving.QueueSidecarResourcePercentageAnnotation: the keys, by priority.
QueueSidecarResourcePercentageAnnotation ==
    <<"queue.sidecar.serving.knative.dev/resource-percentage",
      "queue.sidecar.serving.knative.dev/resourcePercentage">>

\* kmap.KeyPriority.Get: the value of the first key the map holds, or "".
KeyGet(key, m) ==
    LET present == {i \in 1..Len(key) : key[i] \in DOMAIN m}
    IN  IF present = {} THEN <<>>
        ELSE m[key[CHOOSE i \in present : \A j \in present : i <= j]]

\* A plausible slip: the parse error is ignored.
fractionFromPercentageAlwaysOk(m, key) ==
    LET parsed == ParseFloat(KeyGet(key, m))
    IN  [value |-> FloatDivSmall(parsed.value, 100), ok |-> TRUE]

fractionFromPercentage(m, key) ==
    LET parsed == ParseFloat(KeyGet(key, m))
    IN  [value |-> FloatDivSmall(parsed.value, 100), ok |-> parsed.ok]

-----------------------------------------------------------------------------
(* createQueueResources                                                    *)

ResourceCPU == "cpu"
ResourceMemory == "memory"
ResourceEphemeralStorage == "ephemeral-storage"

\* resource.MustParse of n mebibytes, "<n>Mi": the bytes at the scale 0.
Mi(n) == Int64Quantity(FALSE, MulSmall(Big(n * 1024), 1024), 0)

\* The boundaries of the values derived from the user container.
queueContainerRequestCPU == [min |-> Int64Quantity(FALSE, Big(25), -3),
                             max |-> Int64Quantity(FALSE, Big(100), -3)]
queueContainerLimitCPU == [min |-> Int64Quantity(FALSE, Big(40), -3),
                           max |-> Int64Quantity(FALSE, Big(500), -3)]
queueContainerRequestMemory == [min |-> Mi(50), max |-> Mi(200)]
queueContainerLimitMemory == [min |-> Mi(200), max |-> Mi(500)]

\* A corev1.ResourceList is a function from the resource names it holds.
EmptyResourceList == [n \in {} |-> ZeroQuantity]

\* list[name] = q
Put(list, name, q) ==
    [n \in DOMAIN list \cup {name} |-> IF n = name THEN q ELSE list[n]]

\* ResourceList.Cpu(), ResourceList.Memory(): zero when the name is absent.
Lookup(list, name) == IF name \in DOMAIN list THEN list[name] ELSE ZeroQuantity

\* The loop over the configured quantities: the non-nil ones are copied.
explicitRequests(cfg) ==
    LET r == (ResourceCPU :> cfg.QueueSidecarCPURequest)
             @@ (ResourceMemory :> cfg.QueueSidecarMemoryRequest)
             @@ (ResourceEphemeralStorage :>
                     cfg.QueueSidecarEphemeralStorageRequest)
    IN  [n \in {x \in DOMAIN r : r[x] # Nil} |-> r[n]]

explicitLimits(cfg) ==
    LET r == (ResourceCPU :> cfg.QueueSidecarCPULimit)
             @@ (ResourceMemory :> cfg.QueueSidecarMemoryLimit)
             @@ (ResourceEphemeralStorage :>
                     cfg.QueueSidecarEphemeralStorageLimit)
    IN  [n \in {x \in DOMAIN r : r[x] # Nil} |-> r[n]]

\* if ok, q = computeResourceRequirements(...); ok { list[name] = q }
override(list, name, computed) ==
    IF computed.ok THEN Put(list, name, computed.quantity) ELSE list

\* The override of the CPU and the memory request.
overrideRequests(resourceRequests, userRequests, resourceFraction, outOfRange) ==
    override(
        override(resourceRequests, ResourceCPU,
                 computeResourceRequirements(
                     Lookup(userRequests, ResourceCPU),
                     resourceFraction, queueContainerRequestCPU, outOfRange)),
        ResourceMemory,
        computeResourceRequirements(
            Lookup(userRequests, ResourceMemory),
            resourceFraction, queueContainerRequestMemory, outOfRange))

\* The override of the CPU and the memory limit.
overrideLimits(resourceLimits, userLimits, resourceFraction, outOfRange) ==
    override(
        override(resourceLimits, ResourceCPU,
                 computeResourceRequirements(
                     Lookup(userLimits, ResourceCPU),
                     resourceFraction, queueContainerLimitCPU, outOfRange)),
        ResourceMemory,
        computeResourceRequirements(
            Lookup(userLimits, ResourceMemory),
            resourceFraction, queueContainerLimitMemory, outOfRange))

\* resources: the limits are set only when the list is not empty.
resourceRequirements(resourceRequests, resourceLimits) ==
    [Requests |-> resourceRequests,
     Limits   |-> IF DOMAIN resourceLimits = {} THEN Nil ELSE resourceLimits]

\* The body past the call of fractionFromPercentage.
createQueueResourcesWith(cfg, frac, userContainer, outOfRange) ==
    [resources |->
         IF frac.ok
         THEN resourceRequirements(
                  overrideRequests(explicitRequests(cfg),
                                   userContainer.Resources.Requests,
                                   frac.value, outOfRange),
                  overrideLimits(explicitLimits(cfg),
                                 userContainer.Resources.Limits,
                                 frac.value, outOfRange))
         ELSE resourceRequirements(explicitRequests(cfg),
                                   explicitLimits(cfg)),
     resourceFraction |-> frac.value,
     ok               |-> frac.ok]

\* The result, with the fraction and whether the override path was taken.
createQueueResources(cfg, annotations, userContainer, outOfRange) ==
    createQueueResourcesWith(
        cfg,
        fractionFromPercentage(annotations,
                               QueueSidecarResourcePercentageAnnotation),
        userContainer, outOfRange)

-----------------------------------------------------------------------------
(* applyReadinessProbeDefaultsForExec                                      *)
(*                                                                         *)
(* A corev1.Probe is a record of its handler pointers HTTPGet, TCPSocket   *)
(* and Exec (Nil or a record) and of its timing fields.  A port is an      *)
(* intstr.IntOrString.                                                     *)

localAddress == "127.0.0.1"

\* network.ProbeHeaderName and network.KubeletProbeHeaderName.
ProbeHeaderName == "K-Network-Probe"
KubeletProbeHeaderName == "K-Kubelet-Probe"

\* queue.Name
queueName == "queue"

\* corev1.URISchemeHTTP
URISchemeHTTP == "HTTP"

\* intstr.Int and intstr.String, the two types of an IntOrString.
IntOrStringTypes == {"Int", "String"}

\* intstr.FromInt(val)
FromInt(val) == [Type |-> "Int", IntVal |-> val, StrVal |-> ""]

identifyingHeader == [Name |-> KubeletProbeHeaderName, Value |-> queueName]

\* A plausible slip: the header replaces the user's headers.
applyHTTPGetDropsHeaders(h, port) ==
    [h EXCEPT !.Host = localAddress,
              !.Port = FromInt(port),
              !.Scheme = IF @ = "" THEN URISchemeHTTP ELSE @,
              !.HTTPHeaders = <<identifyingHeader>>]

\* case p.HTTPGet != nil
applyHTTPGet(h, port) ==
    [h EXCEPT !.Host = localAddress,
              !.Port = FromInt(port),
              !.Scheme = IF @ = "" THEN URISchemeHTTP ELSE @,
              !.HTTPHeaders = Append(@, identifyingHeader)]

\* case p.TCPSocket != nil
applyTCPSocket(t, port) ==
    [t EXCEPT !.Host = localAddress, !.Port = FromInt(port)]

\* A plausible slip: the exec action is kept beside the TCP action.
applyExecKeepsExec(p, port) ==
    [p EXCEPT !.TCPSocket = [Port |-> FromInt(port), Host |-> localAddress]]

\* case p.Exec != nil
applyExec(p, port) ==
    [p EXCEPT !.TCPSocket = [Port |-> FromInt(port), Host |-> localAddress],
              !.Exec = Nil]

\* The switch on the handler, for p != nil.
applyHandler(p, port) ==
    IF p.HTTPGet # Nil THEN [p EXCEPT !.HTTPGet = applyHTTPGet(@, port)]
    ELSE IF p.TCPSocket # Nil
    THEN [p EXCEPT !.TCPSocket = applyTCPSocket(@, port)]
    ELSE IF p.Exec # Nil THEN applyExec(p, port)
    ELSE p

\* A plausible slip: only a timeout of exactly 0 is defaulted.
applyTimeoutZeroOnly(p) ==
    IF p.PeriodSeconds > 0 /\ p.TimeoutSeconds = 0
    THEN [p EXCEPT !.TimeoutSeconds = 1]
    ELSE p

\* if p.PeriodSeconds > 0 && p.TimeoutSeconds < 1
applyTimeout(p) ==
    IF p.PeriodSeconds > 0 /\ p.TimeoutSeconds < 1
    THEN [p EXCEPT !.TimeoutSeconds = 1]
    ELSE p

\* The probe as the call leaves it; the code changes *p in place.
applyReadinessProbeDefaultsForExec(p, port) ==
    IF p = Nil THEN Nil ELSE applyTimeout(applyHandler(p, port))

-----------------------------------------------------------------------------
(* readiness.EncodeProbe: the probe as JSON.  The text is a sequence of    *)
(* tokens; a field tagged omitempty is left out when it is zero, nil or    *)
(* empty.  Encoding fails on a port that is neither an Int nor a String.   *)

RECURSIVE Join(_)
\* The non-empty parts, separated by commas.
Join(parts) ==
    IF parts = <<>> THEN <<>>
    ELSE IF Head(parts) = <<>> THEN Join(Tail(parts))
    ELSE LET rest == Join(Tail(parts))
         IN  IF rest = <<>> THEN Head(parts) ELSE Head(parts) \o <<",">> \o rest

Object(parts) == <<"{">> \o Join(parts) \o <<"}">>

Field(name, value) == <<name, ":">> \o value

JSONString(s) == <<"\"", s, "\"">>

JSONInt(n) == IF n < 0 THEN <<"-">> \o Itoa(-n) ELSE Itoa(n)

OmitEmptyString(name, s) == IF s = "" THEN <<>> ELSE Field(name, JSONString(s))

OmitEmptyInt(name, n) == IF n = 0 THEN <<>> ELSE Field(name, JSONInt(n))

MarshalPort(port) ==
    IF port.Type = "Int" THEN JSONInt(port.IntVal) ELSE JSONString(port.StrVal)

MarshalHeaders(hs) ==
    IF hs = <<>> THEN <<>>
    ELSE Field("httpHeaders",
               <<"[">>
               \o Join([i \in 1..Len(hs) |->
                           Object(<<Field("name", JSONString(hs[i].Name)),
                                    Field("value", JSONString(hs[i].Value))>>)])
               \o <<"]">>)

MarshalHTTPGet(h) ==
    Object(<<OmitEmptyString("path", h.Path),
             Field("port", MarshalPort(h.Port)),
             OmitEmptyString("host", h.Host),
             OmitEmptyString("scheme", h.Scheme),
             MarshalHeaders(h.HTTPHeaders)>>)

MarshalTCPSocket(t) ==
    Object(<<Field("port", MarshalPort(t.Port)),
             OmitEmptyString("host", t.Host)>>)

MarshalExec(e) ==
    Object(<<IF e.Command = <<>> THEN <<>>
             ELSE Field("command",
                        <<"[">>
                        \o Join([i \in 1..Len(e.Command) |->
                                    JSONString(e.Command[i])])
                        \o <<"]">>)>>)

MarshalProbe(p) ==
    Object(<<IF p.Exec = Nil THEN <<>>
             ELSE Field("exec", MarshalExec(p.Exec)),
             IF p.HTTPGet = Nil THEN <<>>
             ELSE Field("httpGet", MarshalHTTPGet(p.HTTPGet)),
             IF p.TCPSocket = Nil THEN <<>>
             ELSE Field("tcpSocket", MarshalTCPSocket(p.TCPSocket)),
             OmitEmptyInt("initialDelaySeconds", p.InitialDelaySeconds),
             OmitEmptyInt("timeoutSeconds", p.TimeoutSeconds),
             OmitEmptyInt("periodSeconds", p.PeriodSeconds),
             OmitEmptyInt("successThreshold", p.SuccessThreshold),
             OmitEmptyInt("failureThreshold", p.FailureThreshold)>>)

\* Every port the probe holds can be encoded.
Encodable(p) ==
    /\ p.HTTPGet # Nil => p.HTTPGet.Port.Type \in IntOrStringTypes
    /\ p.TCPSocket # Nil => p.TCPSocket.Port.Type \in IntOrStringTypes

\* The encoded probe and the error.
EncodeProbe(rp) ==
    IF rp = Nil
    THEN [json |-> <<>>, err |-> [error |-> "cannot encode nil probe"]]
    ELSE IF ~Encodable(rp)
    THEN [json |-> <<>>, err |-> [error |-> "json: error calling MarshalJSON"]]
    ELSE [json |-> MarshalProbe(rp), err |-> Nil]

-----------------------------------------------------------------------------
(* makeQueueContainer.  The revision holds its namespace, name, owner      *)
(* references, labels and annotations, the three optional numbers of its   *)
(* spec, its protocol (rev.GetProtocol()), its user port                   *)
(* (getUserPort(rev)) and its user container.  A pointer to a number is    *)
(* Nil or a record [ptr |-> n].  A text that the code computes is a        *)
(* sequence of characters; a text it copies through is a string.  The      *)
(* variables of the process environment are an argument of the model.      *)

ProtocolH2C == "h2c"
ProtocolHTTP1 == "http1"

requestQueueHTTPPortName == "queue-port"
profilingPortName == "profiling-port"

\* networking.BackendHTTPPort, networking.BackendHTTP2Port,
\* networking.QueueAdminPort, networking.AutoscalingQueueMetricsPort,
\* networking.UserQueueMetricsPort and profiling.ProfilingPort.
BackendHTTPPort == 8012
BackendHTTP2Port == 8013
QueueAdminPort == 8022
AutoscalingQueueMetricsPort == 9090
UserQueueMetricsPort == 9091
ProfilingPort == 8008

queueHTTPPort ==
    [Name |-> requestQueueHTTPPortName, ContainerPort |-> BackendHTTPPort]

queueHTTP2Port ==
    [Name |-> requestQueueHTTPPortName, ContainerPort |-> BackendHTTP2Port]

queueNonServingPorts ==
    <<[Name |-> "http-queueadm", ContainerPort |-> QueueAdminPort],
      [Name |-> "http-autometric",
       ContainerPort |-> AutoscalingQueueMetricsPort],
      [Name |-> "http-usermetric", ContainerPort |-> UserQueueMetricsPort]>>

profilingPort ==
    [Name |-> profilingPortName, ContainerPort |-> ProfilingPort]

queueSecurityContext ==
    [AllowPrivilegeEscalation |-> FALSE,
     ReadOnlyRootFilesystem   |-> TRUE,
     RunAsNonRoot             |-> TRUE,
     Capabilities             |-> [Drop |-> <<"all">>]]

QueueContainerName == "queue-proxy"

\* strconv.FormatBool
FormatBool(b) == IF b THEN <<"t", "r", "u", "e">> ELSE <<"f", "a", "l", "s", "e">>

\* servingPort: the HTTP2 port for the protocol h2c.
servingPortOf(rev) ==
    IF rev.protocol = ProtocolH2C THEN queueHTTP2Port ELSE queueHTTPPort

\* ports: the non-serving ports, the profiling port when profiling is
\* enabled, the serving port.
portsOf(rev, cfg) ==
    Append(IF cfg.Observability.EnableProfiling
           THEN Append(queueNonServingPorts, profilingPort)
           ELSE queueNonServingPorts,
           servingPortOf(rev))

\* A plausible slip: the HTTP action is set and the user's other handlers
\* are left in the copy.
httpProbeOfKeepsHandlers(readinessProbe, servingPort) ==
    [readinessProbe EXCEPT
        !.HTTPGet = [Path        |-> "",
                     Port        |-> FromInt(servingPort.ContainerPort),
                     Host        |-> "",
                     Scheme      |-> "",
                     HTTPHeaders |-> <<[Name  |-> ProbeHeaderName,
                                        Value |-> queueName]>>]]

\* httpProbe: a copy of the user's probe with its handler replaced.
httpProbeOf(readinessProbe, servingPort) ==
    [readinessProbe EXCEPT
        !.HTTPGet = [Path        |-> "",
                     Port        |-> FromInt(servingPort.ContainerPort),
                     Host        |-> "",
                     Scheme      |-> "",
                     HTTPHeaders |-> <<[Name  |-> ProbeHeaderName,
                                        Value |-> queueName]>>],
        !.TCPSocket = Nil,
        !.Exec = Nil]

\* metav1.GetControllerOf: the first owner reference whose Controller is
\* set and true, or nil.
GetControllerOf(rev) ==
    LET controllers == {i \in 1..Len(rev.OwnerReferences) :
                            /\ rev.OwnerReferences[i].Controller # Nil
                            /\ rev.OwnerReferences[i].Controller.ptr}
    IN  IF controllers = {} THEN Nil
        ELSE rev.OwnerReferences[CHOOSE i \in controllers :
                                     \A j \in controllers : i <= j]

\* configName: the name of the controlling owner of kind Configuration.
configNameOf(rev) ==
    IF GetControllerOf(rev) # Nil /\ GetControllerOf(rev).Kind = "Configuration"
    THEN GetControllerOf(rev).Name
    ELSE ""

\* serviceName: rev.Labels[serving.ServiceLabelKey], "" without the label.
serviceNameOf(rev) ==
    IF "serving.knative.dev/service" \in DOMAIN rev.Labels
    THEN rev.Labels["serving.knative.dev/service"]
    ELSE ""

\* zapcore.Level.String
LevelString(ll) ==
    IF ll \in -1..5
    THEN <<<<"d", "e", "b", "u", "g">>, <<"i", "n", "f", "o">>,
           <<"w", "a", "r", "n">>, <<"e", "r", "r", "o", "r">>,
           <<"d", "p", "a", "n", "i", "c">>, <<"p", "a", "n", "i", "c">>,
           <<"f", "a", "t", "a", "l">>>>[ll + 2]
    ELSE <<"L", "e", "v", "e", "l", "(">> \o Itoa(ll) \o <<")">>

\* loggingLevel: the level of the component "queueproxy", "" without one.
loggingLevelOf(cfg) ==
    IF "queueproxy" \in DOMAIN cfg.Logging.LoggingLevel
    THEN LevelString(cfg.Logging.LoggingLevel["queueproxy"])
    ELSE <<>>

\* ts and maxDurationTS: the number a pointer holds, 0 for nil.
secondsOf(p) == IF p # Nil THEN p.ptr ELSE 0

\* RevisionSpec.GetContainerConcurrency: the number set, or
\* config.DefaultContainerConcurrency, which is 0.
GetContainerConcurrency(spec) ==
    IF spec.ContainerConcurrency = Nil THEN 0
    ELSE spec.ContainerConcurrency.ptr

\* The decimals from 0 to 1 of n fraction digits, written without a
\* trailing zero.
Decimals(n) ==
    IF n = 0 THEN {<<"0">>, <<"1">>}
    ELSE {<<"0", ".">> \o ds :
              ds \in {x \in [1..n -> {DigitChars[i] : i \in 1..10}] :
                          x[n] # "0"}}

RECURSIVE Sprint(_)
\* fmt.Sprint of a float64: NaN, +Inf, -Inf, and for a finite number the
\* shortest decimal that strconv.ParseFloat reads back as the same float64.
\* The sample rate is a probability: the decimal is looked for among those
\* of at most two fraction digits from 0 to 1.
Sprint(f) ==
    IF f.class = "nan" THEN <<"N", "a", "N">>
    ELSE IF f.class = "inf"
    THEN (IF f.neg THEN <<"-">> ELSE <<"+">>) \o <<"I", "n", "f">>
    ELSE IF f.neg THEN <<"-">> \o Sprint([f EXCEPT !.neg = FALSE])
    ELSE IF \E s \in Decimals(0) : ParseFloat(s).value = f
    THEN CHOOSE s \in Decimals(0) : ParseFloat(s).value = f
    ELSE IF \E s \in Decimals(1) : ParseFloat(s).value = f
    THEN CHOOSE s \in Decimals(1) : ParseFloat(s).value = f
    ELSE CHOOSE s \in Decimals(2) : ParseFloat(s).value = f

\* os.Getenv: "" for a variable that is not set.
Getenv(environ, key) == IF key \in DOMAIN environ THEN environ[key] ELSE ""

\* system.NamespaceEnvKey and metrics.DomainEnv.  system.Namespace() and
\* metrics.Domain() return the value of their variable and panic when it is
\* unset or empty.
NamespaceEnvKey == "SYSTEM_NAMESPACE"
DomainEnv == "METRICS_DOMAIN"

\* path.Join(concurrencyStateTokenVolumeMountPath, concurrencyStateTokenName)
\* of two clean paths: the two with a slash between.
concurrencyStateTokenPath == "/var/run/secrets/tokens" \o "/" \o "state-token"

\* An environment variable with a value, and one read from a pod field.
EnvVar(name, value) == [Name |-> name, Value |-> value, ValueFrom |-> Nil]

EnvVarFrom(name, apiVersion, fieldPath) ==
    [Name      |-> name,
     Value     |-> "",
     ValueFrom |-> [FieldRef |-> [APIVersion |-> apiVersion,
                                  FieldPath  |-> fieldPath]]]

\* The container spec once the probes are built, with the thirty
\* environment variables in the order of the code.
queueContainerOf(rev, cfg, environ, userProbeJSON, httpProbe, outOfRange) ==
    [Name            |-> QueueContainerName,
     Image           |-> cfg.Deployment.QueueSidecarImage,
     Resources       |-> createQueueResources(cfg.Deployment,
                                              rev.annotations,
                                              rev.container,
                                              outOfRange).resources,
     Ports           |-> portsOf(rev, cfg),
     StartupProbe    |-> Nil,
     ReadinessProbe  |-> httpProbe,
     SecurityContext |-> queueSecurityContext,
     Env             |->
         <<EnvVar("SERVING_NAMESPACE", rev.Namespace),
           EnvVar("SERVING_SERVICE", serviceNameOf(rev)),
           EnvVar("SERVING_CONFIGURATION", configNameOf(rev)),
           EnvVar("SERVING_REVISION", rev.Name),
           EnvVar("QUEUE_SERVING_PORT",
                  Itoa(servingPortOf(rev).ContainerPort)),
           EnvVar("CONTAINER_CONCURRENCY",
                  Itoa(GetContainerConcurrency(rev.Spec))),
           EnvVar("REVISION_TIMEOUT_SECONDS",
                  Itoa(secondsOf(rev.Spec.TimeoutSeconds))),
           EnvVar("MAX_DURATION_SECONDS",
                  Itoa(secondsOf(rev.Spec.MaxDurationSeconds))),
           EnvVarFrom("SERVING_POD", "", "metadata.name"),
           EnvVarFrom("SERVING_POD_IP", "", "status.podIP"),
           EnvVar("SERVING_LOGGING_CONFIG", cfg.Logging.LoggingConfig),
           EnvVar("SERVING_LOGGING_LEVEL", loggingLevelOf(cfg)),
           EnvVar("SERVING_REQUEST_LOG_TEMPLATE",
                  cfg.Observability.RequestLogTemplate),
           EnvVar("SERVING_ENABLE_REQUEST_LOG",
                  FormatBool(cfg.Observability.EnableRequestLog)),
           EnvVar("SERVING_REQUEST_METRICS_BACKEND",
                  cfg.Observability.RequestMetricsBackend),
           EnvVar("TRACING_CONFIG_BACKEND", cfg.Tracing.Backend),
           EnvVar("TRACING_CONFIG_ZIPKIN_ENDPOINT",
                  cfg.Tracing.ZipkinEndpoint),
           EnvVar("TRACING_CONFIG_DEBUG", FormatBool(cfg.Tracing.Debug)),
           EnvVar("TRACING_CONFIG_SAMPLE_RATE",
                  Sprint(cfg.Tracing.SampleRate)),
           EnvVar("USER_PORT", Itoa(rev.userPort)),
           EnvVar(NamespaceEnvKey, Getenv(environ, NamespaceEnvKey)),
           EnvVar(DomainEnv, Getenv(environ, DomainEnv)),
           EnvVar("SERVING_READINESS_PROBE", userProbeJSON),
           EnvVar("ENABLE_PROFILING",
                  FormatBool(cfg.Observability.EnableProfiling)),
           EnvVar("SERVING_ENABLE_PROBE_REQUEST_LOG",
                  FormatBool(cfg.Observability.EnableProbeRequestLog)),
           EnvVar("METRICS_COLLECTOR_ADDRESS",
                  cfg.Observability.MetricsCollectorAddress),
           EnvVar("CONCURRENCY_STATE_ENDPOINT",
                  cfg.Deployment.ConcurrencyStateEndpoint),
           EnvVar("CONCURRENCY_STATE_TOKEN_PATH", concurrencyStateTokenPath),
           EnvVarFrom("HOST_IP", "v1", "status.hostIP"),
           EnvVar("ENABLE_HTTP2_AUTO_DETECTION",
                  FormatBool(cfg.Features.AutoDetectHTTP2 = "Enabled"))>>]

serializeError == [error |-> "failed to serialize readiness probe"]

\* A plausible slip: the error is returned beside the container.
probeErrorResultWithContainer(rev, cfg, environ, outOfRange) ==
    [c     |-> queueContainerOf(rev, cfg, environ, <<>>,
                                httpProbeOf(rev.container.ReadinessProbe,
                                            servingPortOf(rev)),
                                outOfRange),
     err   |-> serializeError,
     panic |-> Nil]

\* return nil, fmt.Errorf("failed to serialize readiness probe: %w", err)
probeErrorResult(rev, cfg, environ, outOfRange) ==
    [c |-> Nil, err |-> serializeError, panic |-> Nil]

\* The probe block and the container: userProbeJSON stays "" and httpProbe
\* nil without a readiness probe.  The container literal calls
\* system.Namespace() and then metrics.Domain(): the call panics, and
\* returns nothing, at the first whose variable is unset or empty.
makeQueueContainerWith(rev, cfg, environ, encoded, outOfRange) ==
    IF rev.container.ReadinessProbe # Nil /\ encoded.err # Nil
    THEN probeErrorResult(rev, cfg, environ, outOfRange)
    ELSE IF \E key \in {NamespaceEnvKey, DomainEnv} : Getenv(environ, key) = ""
    THEN [c     |-> Nil,
          err   |-> Nil,
          panic |-> [unset |-> IF Getenv(environ, NamespaceEnvKey) = ""
                               THEN NamespaceEnvKey
                               ELSE DomainEnv]]
    ELSE [c     |-> queueContainerOf(
                        rev, cfg, environ,
                        IF rev.container.ReadinessProbe # Nil
                        THEN encoded.json
                        ELSE <<>>,
                        IF rev.container.ReadinessProbe # Nil
                        THEN httpProbeOf(rev.container.ReadinessProbe,
                                         servingPortOf(rev))
                        ELSE Nil,
                        outOfRange),
          err   |-> Nil,
          panic |-> Nil]

makeQueueContainer(rev, cfg, environ, outOfRange) ==
    makeQueueContainerWith(
        rev, cfg, environ,
        EncodeProbe(applyReadinessProbeDefaultsForExec(
                        rev.container.ReadinessProbe, rev.userPort)),
        outOfRange)

-----------------------------------------------------------------------------
(* The inputs the specifications draw from.                                *)

\* User quantities run over the multiples of 50 milli-units up to this many.
MaxQuantitySteps == 8

\* resource.MustParse of n milli-units, "<n>m".
Milli(n) == Int64Quantity(FALSE, Big(n), -3)

\* The quantities as resource.MustParse returns them.  Of whole units:
\* "9223372036854774", the largest value below the overflow guard,
\* "9223372036854775", the guard's own value, and "9223372036854776", whose
\* milli-value overflows an int64.  "9007199254740.993", a milli-value past
\* 2^53, where float64 no longer holds every integer.  Below zero, which
\* the overflow guard lets through: "-100m" and "-9223372036854776".  Of
\* more than math.MaxInt64 units: "10E", "10000000000000000k" and
\* "92233720368547758k".  Finer than a milli-unit: "1500u".  Of 19 digits
\* and more, held as an inf.Dec of nine decimals: "-9223372036854775807",
\* "9223372036854775807", "10000000000000000000" and
\* "0.4000000000000000000".
LargeQuantities ==
    {Int64Quantity(FALSE, Sub(DivSmall(MaxInt64, 1000), <<1>>), 0),
     Int64Quantity(FALSE, DivSmall(MaxInt64, 1000), 0),
     Int64Quantity(FALSE, Add(DivSmall(MaxInt64, 1000), <<1>>), 0),
     Int64Quantity(FALSE, Add(Pow2(53), <<1>>), -3),
     Int64Quantity(TRUE, Big(100), -3),
     Int64Quantity(TRUE, Add(DivSmall(MaxInt64, 1000), <<1>>), 0),
     Int64Quantity(FALSE, <<10>>, 18),
     Int64Quantity(FALSE, MulPow(<<1>>, 10, 16), 3),
     Int64Quantity(FALSE, DivSmall(MaxInt64, 100), 3),
     Int64Quantity(FALSE, Big(1500), -6),
     DecQuantity(TRUE, MulPow(MaxInt64, 10, 9), 9),
     DecQuantity(FALSE, MulPow(MaxInt64, 10, 9), 9),
     DecQuantity(FALSE, MulPow(<<1>>, 10, 28), 9),
     DecQuantity(FALSE, Big(400000000), 9)}

\* The values of the percentage annotation.
ValidPercentStrings ==
    {<<"2", "5">>, <<"2", "9">>, <<"3">>, <<"5", "0">>, <<"1", "0", "0">>,
     <<"1", "2", ".", "5">>, <<"0", ".", "1">>,
     <<"0", ".", "1", "2", "3", "4", "5">>,
     <<"1", "e", "1">>, <<"2", ".", "5", "E", "1">>, <<"1", "e", "-", "1">>,
     <<"0", "x", "1", "p", "4">>, <<"1", "_", "0">>}

\* Below 0 and above 100.
OutOfRangePercentStrings ==
    {<<"-", "5", "0">>, <<"2", "0", "0">>, <<"-", "2", "0", "0">>,
     <<"1", "e", "3">>}

\* The values ParseFloat accepts that are no finite number.
SpecialPercentStrings ==
    {<<"N", "a", "N">>, <<"i", "n", "f">>, <<"-", "I", "n", "f">>}

ZeroPercentStrings == {<<"0">>}

\* The values ParseFloat returns an error for: a syntax error, and a number
\* out of the float64 range.
MalformedPercentStrings ==
    {<<"a", "b", "c", "%">>, <<"2", "5", "%">>, <<>>, <<".">>, <<"-">>,
     <<"1", "e">>, <<"0", "x", "1">>, <<"1", "_", "_", "0">>,
     <<"-", "n", "a", "n">>, <<"1", "e", "4", "0", "0">>}

\* An annotation map holding one key.
Annotated(k, v) == [x \in {k} |-> v]

NoAnnotations == [x \in {} |-> <<>>]

-----------------------------------------------------------------------------
(* computeResourceRequirements applied to every argument triple: the       *)
(* fractions are those fractionFromPercentage produces from the parsable   *)
(* values.                                                                 *)

InitCompute ==
    /\ fn = "computeResourceRequirements"
    /\ pc = "call"
    /\ args \in [resourceQuantity :
                     {Milli(50 * i) : i \in 0..MaxQuantitySteps}
                         \cup LargeQuantities,
                 fraction         :
                     {fractionFromPercentage(
                          Annotated(QueueSidecarResourcePercentageAnnotation[1],
                                    v),
                          QueueSidecarResourcePercentageAnnotation).value :
                          v \in ValidPercentStrings
                                    \cup OutOfRangePercentStrings
                                    \cup SpecialPercentStrings
                                    \cup ZeroPercentStrings},
                 boundary         :
                     {[min |-> Milli(25), max |-> Milli(1000)],
                      [min |-> Milli(25), max |-> Milli(100)],
                      [min |-> Milli(0),
                       max |-> Int64Quantity(FALSE, MaxInt64, -3)]}]
    /\ ret = Nil

ComputeResourceRequirements ==
    /\ fn = "computeResourceRequirements"
    /\ pc = "call"
    /\ pc' = "return"
    /\ \E outOfRange \in OutOfRangeConversions :
           ret' = computeResourceRequirements(args.resourceQuantity,
                                              args.fraction, args.boundary,
                                              outOfRange)
    /\ UNCHANGED <<fn, args>>

SpecCompute == InitCompute /\ [][ComputeResourceRequirements]_vars

-----------------------------------------------------------------------------
(* createQueueResources applied to configurations, annotation maps and     *)
(* user containers: every annotation map meets the user lists of 0m, 200m  *)
(* and 256Mi, and every user list meets no annotation and the values 25,   *)
(* 100, 200, -50 and abc%.                                                 *)

\* User CPU quantities run over the multiples of 200m up to this many.
MaxUserCPUSteps == 2

NoConfig ==
    [QueueSidecarCPURequest              |-> Nil,
     QueueSidecarCPULimit                |-> Nil,
     QueueSidecarMemoryRequest           |-> Nil,
     QueueSidecarMemoryLimit             |-> Nil,
     QueueSidecarEphemeralStorageRequest |-> Nil,
     QueueSidecarEphemeralStorageLimit   |-> Nil]

\* The deployment configurations: nothing set, the CPU request alone, a CPU
\* request and limit, and all six quantities.
DeploymentConfigs ==
    {NoConfig,
     [NoConfig EXCEPT !.QueueSidecarCPURequest = Milli(25)],
     [NoConfig EXCEPT !.QueueSidecarCPURequest = Milli(100),
                      !.QueueSidecarCPULimit = Milli(200)],
     [QueueSidecarCPURequest              |-> Milli(25),
      QueueSidecarCPULimit                |-> Milli(50),
      QueueSidecarMemoryRequest           |-> Mi(100),
      QueueSidecarMemoryLimit             |-> Mi(150),
      QueueSidecarEphemeralStorageRequest |-> Mi(300),
      QueueSidecarEphemeralStorageLimit   |-> Mi(600)]}

\* A resource list holds a name or not, and may hold it with a zero
\* quantity: the CPU in multiples of 200m, "10E", "10000000000000000k",
\* "-9223372036854776", "1500u" or "10000000000000000000", the memory 256Mi
\* or 2048Mi.
UserResourceLists ==
    {EmptyResourceList,
     Put(EmptyResourceList, ResourceCPU, Int64Quantity(FALSE, <<10>>, 18)),
     Put(EmptyResourceList, ResourceCPU,
         Int64Quantity(FALSE, MulPow(<<1>>, 10, 16), 3)),
     Put(EmptyResourceList, ResourceCPU,
         Int64Quantity(TRUE, Add(DivSmall(MaxInt64, 1000), <<1>>), 0)),
     Put(EmptyResourceList, ResourceCPU, Int64Quantity(FALSE, Big(1500), -6)),
     Put(EmptyResourceList, ResourceCPU,
         DecQuantity(FALSE, MulPow(<<1>>, 10, 28), 9))}
        \cup {Put(EmptyResourceList, ResourceCPU, Milli(200 * i)) :
                  i \in 0..MaxUserCPUSteps}
        \cup {Put(EmptyResourceList, ResourceMemory, m) :
                  m \in {Mi(256), Mi(2048)}}
        \cup {Put(Put(EmptyResourceList, ResourceCPU, Milli(200 * i)),
                  ResourceMemory, m) :
                  i \in 1..MaxUserCPUSteps, m \in {Mi(256), Mi(2048)}}

InitResources ==
    /\ fn = "createQueueResources"
    /\ pc = "call"
    /\ args \in [cfg           : DeploymentConfigs,
                 annotations   :
                     {NoAnnotations}
                         \cup {Annotated(
                                   QueueSidecarResourcePercentageAnnotation[1],
                                   v) :
                                   v \in ValidPercentStrings
                                             \cup OutOfRangePercentStrings
                                             \cup SpecialPercentStrings
                                             \cup ZeroPercentStrings
                                             \cup MalformedPercentStrings}
                         \cup {Annotated(
                                   QueueSidecarResourcePercentageAnnotation[2],
                                   <<"5", "0">>),
                               (QueueSidecarResourcePercentageAnnotation[1]
                                    :> <<"2", "5">>)
                                   @@ (QueueSidecarResourcePercentageAnnotation[2]
                                           :> <<"a", "b", "c", "%">>)},
                 userContainer : [Resources : [Requests : UserResourceLists,
                                               Limits   : UserResourceLists]]]
    /\ \/ \A l \in {args.userContainer.Resources.Requests,
                     args.userContainer.Resources.Limits} :
              \A n \in DOMAIN l : l[n] \in {Milli(0), Milli(200), Mi(256)}
       \/ args.annotations
              \in {NoAnnotations}
                      \cup {Annotated(
                                QueueSidecarResourcePercentageAnnotation[1],
                                v) :
                                v \in {<<"2", "5">>, <<"1", "0", "0">>,
                                       <<"2", "0", "0">>, <<"-", "5", "0">>,
                                       <<"a", "b", "c", "%">>}}
    /\ ret = Nil

CreateQueueResources ==
    /\ fn = "createQueueResources"
    /\ pc = "call"
    /\ pc' = "return"
    /\ \E outOfRange \in OutOfRangeConversions :
           ret' = createQueueResources(args.cfg, args.annotations,
                                       args.userContainer, outOfRange)
    /\ UNCHANGED <<fn, args>>

SpecResources == InitResources /\ [][CreateQueueResources]_vars

-----------------------------------------------------------------------------
(* applyReadinessProbeDefaultsForExec applied to every probe and port.     *)

\* The user's HTTP header lists hold up to this many headers.
MaxHeaders == 2

\* Timeouts and periods run from -1 up to this many seconds (and 10).
MaxSeconds == 2

NamedPort == [Type |-> "String", IntVal |-> 0, StrVal |-> "http"]

\* A port that is neither an Int nor a String: it cannot be encoded.
BrokenPort == [Type |-> "Neither", IntVal |-> 0, StrVal |-> ""]

ExecActions == {[Command |-> <<"cat", "/tmp/healthy">>]}

\* One handler, none, or (the struct allows it) several.
Handlers ==
    {[HTTPGet |-> h, TCPSocket |-> Nil, Exec |-> Nil] :
         h \in [Path        : {"", "/healthz"},
                Port        : {FromInt(8080), NamedPort},
                Host        : {"", "example.com"},
                Scheme      : {"", "HTTP", "HTTPS"},
                HTTPHeaders :
                    UNION {[1..n -> {[Name |-> "X-User", Value |-> "a"],
                                     [Name  |-> ProbeHeaderName,
                                      Value |-> "user"]}] :
                               n \in 0..MaxHeaders}]}
        \cup {[HTTPGet |-> Nil, TCPSocket |-> t, Exec |-> Nil] :
                  t \in [Port : {FromInt(8080), NamedPort, BrokenPort},
                         Host : {"", "example.com"}]}
        \cup {[HTTPGet |-> Nil, TCPSocket |-> Nil, Exec |-> e] :
                  e \in ExecActions}
        \cup {[HTTPGet |-> Nil, TCPSocket |-> Nil, Exec |-> Nil]}
        \cup {[HTTPGet   |-> [Path |-> "/healthz", Port |-> NamedPort,
                              Host |-> "example.com", Scheme |-> "",
                              HTTPHeaders |->
                                  <<[Name |-> "X-User", Value |-> "a"]>>],
               TCPSocket |-> t,
               Exec      |-> e] :
                  t \in {[Port |-> BrokenPort, Host |-> ""],
                         [Port |-> NamedPort, Host |-> ""]},
                  e \in ExecActions \cup {Nil}}
        \cup {[HTTPGet |-> Nil, TCPSocket |-> [Port |-> NamedPort, Host |-> ""],
               Exec |-> e] : e \in ExecActions}

Probe(handler, timing) ==
    [HTTPGet             |-> handler.HTTPGet,
     TCPSocket           |-> handler.TCPSocket,
     Exec                |-> handler.Exec,
     InitialDelaySeconds |-> timing.InitialDelaySeconds,
     TimeoutSeconds      |-> timing.TimeoutSeconds,
     PeriodSeconds       |-> timing.PeriodSeconds,
     SuccessThreshold    |-> timing.SuccessThreshold,
     FailureThreshold    |-> timing.FailureThreshold]

UserPorts == {8080, 8081}

InitProbe ==
    /\ fn = "applyReadinessProbeDefaultsForExec"
    /\ pc = "call"
    /\ args \in [p    : {Probe(h, t) :
                             h \in Handlers,
                             t \in [InitialDelaySeconds : {0, 5},
                                    TimeoutSeconds      :
                                        (-1..MaxSeconds) \cup {10},
                                    PeriodSeconds       :
                                        (-1..MaxSeconds) \cup {10},
                                    SuccessThreshold    : {1},
                                    FailureThreshold    : {3}]}
                            \cup {Nil},
                 port : UserPorts]
    /\ ret = Nil

ApplyReadinessProbeDefaultsForExec ==
    /\ fn = "applyReadinessProbeDefaultsForExec"
    /\ pc = "call"
    /\ pc' = "return"
    /\ ret' = [p |-> applyReadinessProbeDefaultsForExec(args.p, args.port)]
    /\ UNCHANGED <<fn, args>>

SpecProbe == InitProbe /\ [][ApplyReadinessProbeDefaultsForExec]_vars

-----------------------------------------------------------------------------
(* makeQueueContainer applied to revisions, configurations and             *)
(* environments.  Every protocol, user port, readiness probe, annotation   *)
(* map, resource list and deployment configuration meets a revision and a  *)
(* configuration that set nothing else, with SYSTEM_NAMESPACE set and      *)
(* unset; every setting of the names, owners, labels, numbers, logging,    *)
(* observability, tracing and feature configuration and of the two         *)
(* variables meets an HTTP revision without a readiness probe.             *)

\* The readiness probes of the user container: none, one of each kind with
\* and without headers, no handler, and several handlers, of which one
\* cannot be encoded.  Its resources: none, 400m of CPU, and "10E" against
\* "10000000000000000k" of CPU.  The owner references: none, a controlling
\* Configuration, and a Configuration that does not control before a
\* controlling Service.
Revisions ==
    [Namespace       : {"default"},
     Name            : {"hello-00001"},
     OwnerReferences :
         {<<>>,
          <<[Kind |-> "Configuration", Name |-> "hello",
             Controller |-> [ptr |-> TRUE]]>>,
          <<[Kind |-> "Configuration", Name |-> "other", Controller |-> Nil],
            [Kind |-> "Configuration", Name |-> "unused",
             Controller |-> [ptr |-> FALSE]],
            [Kind |-> "Service", Name |-> "hello",
             Controller |-> [ptr |-> TRUE]]>>},
     Labels          : {[x \in {} |-> ""],
                        [x \in {"serving.knative.dev/service"} |-> "hello"]},
     Spec            : {[ContainerConcurrency |-> Nil,
                         TimeoutSeconds       |-> Nil,
                         MaxDurationSeconds   |-> Nil],
                        [ContainerConcurrency |-> [ptr |-> 10],
                         TimeoutSeconds       |-> [ptr |-> 300],
                         MaxDurationSeconds   |-> [ptr |-> 0]]},
     protocol        : {ProtocolHTTP1, ProtocolH2C},
     userPort        : UserPorts,
     annotations     : {NoAnnotations,
                        Annotated(QueueSidecarResourcePercentageAnnotation[1],
                                  <<"2", "5">>)},
     container       :
         [ReadinessProbe :
              {Nil}
                  \cup {Probe(h, [InitialDelaySeconds |-> 0,
                                  TimeoutSeconds |-> 0, PeriodSeconds |-> 10,
                                  SuccessThreshold |-> 1,
                                  FailureThreshold |-> 3]) :
                            h \in {x \in Handlers :
                                       /\ x.HTTPGet # Nil =>
                                              /\ x.HTTPGet.Host = "example.com"
                                              /\ x.HTTPGet.Scheme = ""
                                              /\ x.HTTPGet.Path = "/healthz"
                                              /\ x.HTTPGet.Port = NamedPort
                                              /\ Len(x.HTTPGet.HTTPHeaders) <= 1
                                       /\ x.TCPSocket # Nil =>
                                              x.TCPSocket.Host = ""}},
          Resources      :
              {[Requests |-> EmptyResourceList, Limits |-> EmptyResourceList],
               [Requests |-> Put(EmptyResourceList, ResourceCPU, Milli(400)),
                Limits   |-> Put(EmptyResourceList, ResourceCPU,
                                 Milli(400))],
               [Requests |-> Put(EmptyResourceList, ResourceCPU,
                                 Int64Quantity(FALSE, <<10>>, 18)),
                Limits   |-> Put(EmptyResourceList, ResourceCPU,
                                 Int64Quantity(FALSE, MulPow(<<1>>, 10, 16),
                                               3))]}]]

\* The configurations: the deployment configurations with the sidecar
\* image and the concurrency state endpoint, and a logging, observability,
\* tracing and feature configuration that sets nothing or everything.  The
\* sample rate is what the tracing configuration parses it from.
Configs ==
    [Deployment    :
         {[f \in {"QueueSidecarImage", "ConcurrencyStateEndpoint"} |-> v[f]]
              @@ d :
              d \in DeploymentConfigs,
              v \in {[QueueSidecarImage        |-> "queue-image",
                      ConcurrencyStateEndpoint |-> ""],
                     [QueueSidecarImage        |-> "queue-image",
                      ConcurrencyStateEndpoint |-> "freeze-proxy"]}},
     Logging       :
         {[LoggingConfig |-> "", LoggingLevel |-> [x \in {} |-> 0]],
          [LoggingConfig |-> "{\"level\": \"info\"}",
           LoggingLevel  |-> [x \in {"controller", "queueproxy"} |->
                                  IF x = "queueproxy" THEN -1 ELSE 2]]},
     Observability :
         {[RequestLogTemplate      |-> t.template,
           EnableRequestLog        |-> t.on,
           RequestMetricsBackend   |-> t.backend,
           EnableProfiling         |-> profiling,
           EnableProbeRequestLog   |-> t.on,
           MetricsCollectorAddress |-> t.address] :
              profiling \in BOOLEAN,
              t \in {[template |-> "", on |-> FALSE, backend |-> "",
                      address |-> ""],
                     [template |-> "{{.Request.Method}}", on |-> TRUE,
                      backend |-> "prometheus",
                      address |-> "otel-collector:55678"]}},
     Tracing       :
         {[Backend        |-> "none",
           ZipkinEndpoint |-> "",
           Debug          |-> FALSE,
           SampleRate     |-> ParseFloat(<<"0", ".", "1">>).value],
          [Backend        |-> "zipkin",
           ZipkinEndpoint |-> "http://zipkin:9411/api/v2/spans",
           Debug          |-> TRUE,
           SampleRate     |-> ParseFloat(<<"0", ".", "2", "5">>).value],
          [Backend        |-> "zipkin",
           ZipkinEndpoint |-> "http://zipkin:9411/api/v2/spans",
           Debug          |-> FALSE,
           SampleRate     |-> ParseFloat(<<"1">>).value]},
     Features      : [AutoDetectHTTP2 : {"Disabled", "Enabled"}]]

InitContainer ==
    /\ fn = "makeQueueContainer"
    /\ pc = "call"
    /\ \/ args \in [rev     : {r \in Revisions :
                                   /\ r.OwnerReferences = <<>>
                                   /\ DOMAIN r.Labels = {}
                                   /\ r.Spec.TimeoutSeconds = Nil},
                    cfg     : {c \in Configs :
                                   /\ c.Deployment.ConcurrencyStateEndpoint = ""
                                   /\ c.Logging.LoggingConfig = ""
                                   /\ c.Observability.RequestLogTemplate = ""
                                   /\ c.Tracing.Backend = "none"
                                   /\ c.Features.AutoDetectHTTP2 = "Disabled"},
                    environ : {[k \in {NamespaceEnvKey, DomainEnv} |->
                                    "knative-serving"],
                               [k \in {DomainEnv} |-> "knative-serving"]}]
       \/ args \in [rev     : {r \in Revisions :
                                   /\ r.protocol = ProtocolHTTP1
                                   /\ r.userPort = 8080
                                   /\ r.annotations = NoAnnotations
                                   /\ r.container.ReadinessProbe = Nil
                                   /\ r.container.Resources.Requests
                                          = EmptyResourceList},
                    cfg     : {c \in Configs :
                                   /\ c.Deployment.QueueSidecarCPURequest = Nil
                                   /\ ~c.Observability.EnableProfiling},
                    environ : {[k \in ks |-> "knative-serving"] :
                                   ks \in SUBSET {NamespaceEnvKey, DomainEnv}}
                                  \cup {[k \in {NamespaceEnvKey, DomainEnv} |->
                                             IF k = DomainEnv THEN ""
                                             ELSE "knative-serving"]}]
    /\ ret = Nil

MakeQueueContainer ==
    /\ fn = "makeQueueContainer"
    /\ pc = "call"
    /\ pc' = "return"
    /\ \E outOfRange \in OutOfRangeConversions :
           ret' = makeQueueContainer(args.rev, args.cfg, args.environ,
                                     outOfRange)
    /\ UNCHANGED <<fn, args>>

SpecContainer == InitContainer /\ [][MakeQueueContainer]_vars

-----------------------------------------------------------------------------
(* What the properties are stated with: exact arithmetic on the values the *)
(* code handles in float64.                                                *)

\* 0 < f <= 1.
InUnitInterval(f) ==
    /\ f.class = "finite"
    /\ ~f.neg
    /\ f.man # <<>>
    /\ f.exp < -52 \/ (f.exp = -52 /\ f.man = Pow2(52))

\* floor(n * f) for a natural number n and a float64 f >= 0, exactly.
FloorTimes(n, f) ==
    IF f.exp >= 0 THEN ShiftLeft(Mul(n, f.man), f.exp)
    ELSE ShiftRight(Mul(n, f.man), -f.exp)

\* The real product n * f has at most 53 significant bits: it is a float64.
ExactProduct(n, f) ==
    LET p == Mul(n, f.man)
    IN  BitLen(p) <= 53 \/ LowBits(p, BitLen(p) - 53) = <<>>

\* The amount of a quantity in milli-units, rounded up to a whole one.
MilliOf(q) ==
    IF AsDec(q).scale <= 3
    THEN MulPow(AsDec(q).unscaled.mag, 10, 3 - AsDec(q).scale)
    ELSE IF DivPow10(AsDec(q).unscaled.mag, AsDec(q).scale - 3).rem = 0
    THEN DivPow10(AsDec(q).unscaled.mag, AsDec(q).scale - 3).quo
    ELSE Add(DivPow10(AsDec(q).unscaled.mag, AsDec(q).scale - 3).quo, <<1>>)

\* The quantity is below zero.
BelowZero(q) == AsDec(q).unscaled.neg

\* floor(Q_milli * f) for the amount Q_milli of a quantity above zero in
\* milli-units, a whole number or not, and a float64 f >= 0, exactly.
FloorMilliTimes(q, f) ==
    IF AsDec(q).scale <= 3 THEN FloorTimes(MilliOf(q), f)
    ELSE DivPow10(FloorTimes(AsDec(q).unscaled.mag, f),
                  AsDec(q).scale - 3).quo

\* The quantity of so many milli-units.
MilliQuantity(n) == Int64Quantity(FALSE, n, -3)

\* min(max(q, boundary.min), boundary.max)
Clamp(q, boundary) ==
    IF QuantityLess(q, boundary.min) THEN boundary.min
    ELSE IF QuantityLess(boundary.max, q) THEN boundary.max
    ELSE q

ComputeReturned ==
    fn = "computeResourceRequirements" /\ pc = "return"

\* computeResourceRequirements has returned for a fraction in (0, 1] and a
\* quantity above zero.
C1_Case ==
    /\ ComputeReturned
    /\ InUnitInterval(args.fraction)
    /\ ~IsZero(args.resourceQuantity)
    /\ ~BelowZero(args.resourceQuantity)

\* C1 as stated: for every fraction f in (0, 1], quantity Q > 0 and
\* boundary, computeResourceRequirements returns ok = true and
\* clamp(floor(Q_milli * f), min, max), the product being the real one.
C1_Original ==
    C1_Case =>
        /\ ret.ok
        /\ ret.quantity =
               Clamp(MilliQuantity(FloorMilliTimes(args.resourceQuantity,
                                                   args.fraction)),
                     args.boundary)

\* C1, amended: for every fraction f in (0, 1], quantity Q with
\* 0 < Q_milli <= 2^53 and boundary, computeResourceRequirements returns
\* ok = true and clamp(v, min, max), where v, the float64 product of Q_milli
\* and f truncated, is floor(Q_milli * f) or floor(Q_milli * f) + 1, and is
\* floor(Q_milli * f) whenever the real product is a float64 (f = 0.25,
\* Q = 400m, boundary [25m, 1000m] gives 100m).
C1_FloatProduct ==
    (C1_Case /\ Leq(MilliOf(args.resourceQuantity), Pow2(53))) =>
        LET lo == FloorTimes(MilliOf(args.resourceQuantity), args.fraction)
            atLo == Clamp(MilliQuantity(lo), args.boundary)
            atHi == Clamp(MilliQuantity(Add(lo, <<1>>)), args.boundary)
        IN  /\ ret.ok
            /\ ret.quantity \in {atLo, atHi}
            /\ ExactProduct(MilliOf(args.resourceQuantity), args.fraction)
                   => ret.quantity = atLo

\* The example of the claim: 25% of 400m within [25m, 1000m] is 100m.
C1_Witness ==
    /\ C1_Case
    /\ args.fraction = [class |-> "finite", neg |-> FALSE,
                        man |-> Pow2(52), exp |-> -54]
    /\ args.resourceQuantity = Milli(400)
    /\ args.boundary = [min |-> Milli(25), max |-> Milli(1000)]
    /\ ret.ok
    /\ ret.quantity = Milli(100)

ResourcesReturned ==
    fn = "createQueueResources" /\ pc = "return"

\* The value of the percentage annotation, <<>> when there is none.
AnnotationValue ==
    KeyGet(QueueSidecarResourcePercentageAnnotation, args.annotations)

AnnotationPresent ==
    \E i \in 1..Len(QueueSidecarResourcePercentageAnnotation) :
        QueueSidecarResourcePercentageAnnotation[i] \in DOMAIN args.annotations

\* The four values the percentage overrides.
Slots ==
    {[kind |-> "Requests", name |-> ResourceCPU,
      boundary |-> queueContainerRequestCPU,
      field |-> "QueueSidecarCPURequest"],
     [kind |-> "Limits", name |-> ResourceCPU,
      boundary |-> queueContainerLimitCPU,
      field |-> "QueueSidecarCPULimit"],
     [kind |-> "Requests", name |-> ResourceMemory,
      boundary |-> queueContainerRequestMemory,
      field |-> "QueueSidecarMemoryRequest"],
     [kind |-> "Limits", name |-> ResourceMemory,
      boundary |-> queueContainerLimitMemory,
      field |-> "QueueSidecarMemoryLimit"]}

UserQuantity(slot) ==
    Lookup(args.userContainer.Resources[slot.kind], slot.name)

\* The result's list of a kind; a nil Limits holds nothing.
ResultList(kind) ==
    IF ret.resources[kind] = Nil THEN EmptyResourceList
    ELSE ret.resources[kind]

\* The result's entry is the configured quantity, or absent with it.
KeepsExplicit(kind, name, field) ==
    IF args.cfg[field] = Nil THEN name \notin DOMAIN ResultList(kind)
    ELSE /\ name \in DOMAIN ResultList(kind)
         /\ ResultList(kind)[name] = args.cfg[field]

\* The result's entry is derived from the user's quantity: it is what
\* computeResourceRequirements returns for the user's quantity, the
\* fraction and the boundary of the value, and for a quantity from 0 to
\* 2^53 milli-units that is the product with the fraction, clamped.
Overridden(slot) ==
    LET lo == FloorTimes(MilliOf(UserQuantity(slot)), ret.resourceFraction)
    IN  /\ slot.name \in DOMAIN ResultList(slot.kind)
        /\ \E outOfRange \in OutOfRangeConversions :
               ResultList(slot.kind)[slot.name] =
                   computeResourceRequirements(UserQuantity(slot),
                                               ret.resourceFraction,
                                               slot.boundary,
                                               outOfRange).quantity
        /\ (/\ ~BelowZero(UserQuantity(slot))
            /\ Leq(MilliOf(UserQuantity(slot)), Pow2(53)))
               => ResultList(slot.kind)[slot.name] \in
                      {Clamp(MilliQuantity(lo), slot.boundary),
                       Clamp(MilliQuantity(Add(lo, <<1>>)), slot.boundary)}

\* The result is built from the configured quantities alone.
ExplicitOnly ==
    /\ \A slot \in Slots : KeepsExplicit(slot.kind, slot.name, slot.field)
    /\ KeepsExplicit("Requests", ResourceEphemeralStorage,
                     "QueueSidecarEphemeralStorageRequest")
    /\ KeepsExplicit("Limits", ResourceEphemeralStorage,
                     "QueueSidecarEphemeralStorageLimit")
    /\ ret.resources.Requests # Nil
    /\ ret.resources.Limits = Nil <=>
           /\ args.cfg.QueueSidecarCPULimit = Nil
           /\ args.cfg.QueueSidecarMemoryLimit = Nil
           /\ args.cfg.QueueSidecarEphemeralStorageLimit = Nil

\* C2: with a valid percentage annotation, each of the four overridable
\* values whose user quantity is zero keeps the configured quantity (or
\* stays absent), and each whose user quantity is not zero is overridden,
\* whatever the other three are.
C2_ZeroKeepsExplicit ==
    (ResourcesReturned /\ AnnotationValue \in ValidPercentStrings) =>
        \A slot \in Slots :
            IF IsZero(UserQuantity(slot))
            THEN KeepsExplicit(slot.kind, slot.name, slot.field)
            ELSE Overridden(slot)

\* 25%, no user CPU request and a user CPU limit of 400m: the CPU request
\* stays the configured 25m and the CPU limit becomes 100m.
C2_Witness ==
    /\ ResourcesReturned
    /\ AnnotationValue = <<"2", "5">>
    /\ IsZero(Lookup(args.userContainer.Resources.Requests, ResourceCPU))
    /\ Lookup(args.userContainer.Resources.Limits, ResourceCPU) = Milli(400)
    /\ args.cfg.QueueSidecarCPURequest = Milli(25)
    /\ args.cfg.QueueSidecarCPULimit = Milli(50)
    /\ ret.resources.Requests[ResourceCPU] = Milli(25)
    /\ ret.resources.Limits[ResourceCPU] = Milli(100)

\* C3: an annotation value that is no number gives the result of a missing
\* annotation, the requirements built from the configured quantities alone,
\* and the override path is not taken.
C3_MalformedIsAbsent ==
    (/\ ResourcesReturned
     /\ ~AnnotationPresent \/ AnnotationValue \in MalformedPercentStrings) =>
        ~ret.ok /\ ExplicitOnly

\* "abc%" with every quantity configured and a user CPU request of 400m.
C3_Witness ==
    /\ ResourcesReturned
    /\ AnnotationPresent
    /\ AnnotationValue = <<"a", "b", "c", "%">>
    /\ Lookup(args.userContainer.Resources.Requests, ResourceCPU) = Milli(400)
    /\ args.cfg.QueueSidecarCPULimit = Milli(50)
    /\ ret.resources.Requests[ResourceCPU] = Milli(25)
    /\ ret.resources.Limits[ResourceCPU] = Milli(50)

\* C4 as stated: on the override path the fraction comes from a percentage
\* within 0-100 (it is in (0, 1], or 0 for the percentage 0), and an
\* annotation outside 0-100 (negative, above 100, no finite number) leaves
\* the configured quantities in place.
C4_FractionInUnitInterval ==
    ResourcesReturned =>
        /\ ret.ok => \/ InUnitInterval(ret.resourceFraction)
                     \/ ret.resourceFraction = FloatZero(FALSE)
        /\ AnnotationValue \in OutOfRangePercentStrings
                                  \cup SpecialPercentStrings =>
               ~ret.ok /\ ExplicitOnly

\* C5 as stated: for every non-zero quantity and every fraction that
\* reaches computeResourceRequirements, the milli-value before clamping is
\* in [0, MaxInt64], the pre-scaled milli-value is an int64 and is
\* MaxInt64 - 1 when the milli-value of the quantity overflows.
C5_NoOverflow ==
    (ComputeReturned /\ ~IsZero(args.resourceQuantity)) =>
        /\ ret.ok
        /\ InInt64(ret.scaledMilliValue)
        /\ Lt(MaxInt64, MilliOf(args.resourceQuantity)) =>
               ret.scaledMilliValue = Int64(FALSE, Sub(MaxInt64, <<1>>))
        /\ ~ret.newValue.neg
        /\ Leq(ret.newValue.mag, MaxInt64)

\* What holds of the code: the same for the quantities above zero of at
\* most MaxInt64 whole units and the fractions that are not negative, the
\* infinity and NaN among them.
C5_NoOverflowFromZeroUp ==
    (/\ ComputeReturned
     /\ ~IsZero(args.resourceQuantity)
     /\ ~BelowZero(args.resourceQuantity)
     /\ Leq(MilliOf(args.resourceQuantity), MulSmall(MaxInt64, 1000))
     /\ ~args.fraction.neg)
        => /\ ret.ok
           /\ InInt64(ret.scaledMilliValue)
           /\ Lt(MaxInt64, MilliOf(args.resourceQuantity)) =>
                  ret.scaledMilliValue = Int64(FALSE, Sub(MaxInt64, <<1>>))
           /\ ~ret.newValue.neg
           /\ Leq(ret.newValue.mag, MaxInt64)

-----------------------------------------------------------------------------
(* The probe translation.                                                  *)

ProbeReturned ==
    fn = "applyReadinessProbeDefaultsForExec" /\ pc = "return"

\* The loopback address and the given port, as the translation writes them.
LoopbackPort == [Type |-> "Int", IntVal |-> args.port, StrVal |-> ""]

\* C6: on an HTTP probe the host becomes 127.0.0.1 and the port the given
\* port, the scheme becomes HTTP only when it was unset, the headers are the
\* user's headers in order followed by one identifying header, whose name
\* is not the header name of the sidecar's own readiness probe, and the
\* path is unchanged.
C6_HTTPProbeTranslated ==
    (ProbeReturned /\ args.p # Nil /\ args.p.HTTPGet # Nil) =>
        LET old == args.p.HTTPGet
            new == ret.p.HTTPGet
            n   == Len(old.HTTPHeaders)
        IN  /\ new.Host = "127.0.0.1"
            /\ new.Port = LoopbackPort
            /\ new.Scheme = (IF old.Scheme = "" THEN "HTTP" ELSE old.Scheme)
            /\ new.Path = old.Path
            /\ Len(new.HTTPHeaders) = n + 1
            /\ SubSeq(new.HTTPHeaders, 1, n) = old.HTTPHeaders
            /\ new.HTTPHeaders[n + 1] =
                   [Name |-> "K-Kubelet-Probe", Value |-> "queue"]
            /\ new.HTTPHeaders[n + 1].Name # "K-Network-Probe"

\* An HTTP probe on a named port of example.com, with the scheme unset and
\* two headers, translated.
C6_Witness ==
    /\ ProbeReturned
    /\ args.p # Nil
    /\ args.p.HTTPGet # Nil
    /\ args.p.HTTPGet.Host = "example.com"
    /\ args.p.HTTPGet.Port = NamedPort
    /\ args.p.HTTPGet.Scheme = ""
    /\ Len(args.p.HTTPGet.HTTPHeaders) = 2
    /\ Len(ret.p.HTTPGet.HTTPHeaders) = 3
    /\ ret.p.HTTPGet.Host = "127.0.0.1"
    /\ ret.p.HTTPGet.Scheme = "HTTP"

\* C7: an exec probe becomes a probe whose only handler is a TCP action on
\* 127.0.0.1 and the given port; on a TCP probe only the host and the port
\* of the TCP action are rewritten.
C7_ExecAndTCPTranslated ==
    (ProbeReturned /\ args.p # Nil /\ args.p.HTTPGet = Nil) =>
        /\ (args.p.TCPSocket = Nil /\ args.p.Exec # Nil) =>
               /\ ret.p.TCPSocket = [Port |-> LoopbackPort, Host |-> "127.0.0.1"]
               /\ ret.p.Exec = Nil
               /\ ret.p.HTTPGet = Nil
        /\ args.p.TCPSocket # Nil =>
               /\ ret.p.TCPSocket = [Port |-> LoopbackPort, Host |-> "127.0.0.1"]
               /\ ret.p.Exec = args.p.Exec
               /\ ret.p.HTTPGet = Nil

\* An exec probe translated.
C7_Witness ==
    /\ ProbeReturned
    /\ args.p # Nil
    /\ args.p.HTTPGet = Nil
    /\ args.p.TCPSocket = Nil
    /\ args.p.Exec # Nil
    /\ ret.p.TCPSocket # Nil
    /\ ret.p.Exec = Nil

\* C8: for every probe that is not nil the timeout becomes 1 when the
\* period is positive and the timeout is below 1, and is unchanged
\* otherwise; the period, the initial delay and the thresholds are
\* unchanged.
C8_TimeoutDefaulted ==
    (ProbeReturned /\ args.p # Nil) =>
        /\ ret.p.TimeoutSeconds =
               (IF args.p.PeriodSeconds > 0 /\ args.p.TimeoutSeconds < 1
                THEN 1 ELSE args.p.TimeoutSeconds)
        /\ ret.p.PeriodSeconds = args.p.PeriodSeconds
        /\ ret.p.InitialDelaySeconds = args.p.InitialDelaySeconds
        /\ ret.p.SuccessThreshold = args.p.SuccessThreshold
        /\ ret.p.FailureThreshold = args.p.FailureThreshold

\* PeriodSeconds = 10 and TimeoutSeconds = 0 give TimeoutSeconds = 1.
C8_Witness ==
    /\ ProbeReturned
    /\ args.p # Nil
    /\ args.p.PeriodSeconds = 10
    /\ args.p.TimeoutSeconds = 0
    /\ ret.p.TimeoutSeconds = 1

-----------------------------------------------------------------------------
(* The container spec.                                                     *)

ContainerReturned == fn = "makeQueueContainer" /\ pc = "return"

ProbeDeclared == args.rev.container.ReadinessProbe # Nil

\* The encoding of the user's probe, translated for the user port.
EncodedUserProbe ==
    EncodeProbe(applyReadinessProbeDefaultsForExec(
                    args.rev.container.ReadinessProbe, args.rev.userPort))

\* The value of the container's environment variable of a name.
EnvValue(name) ==
    LET i == CHOOSE j \in 1..Len(ret.c.Env) : ret.c.Env[j].Name = name
    IN  ret.c.Env[i].Value

EnvironmentSet ==
    \A key \in {"SYSTEM_NAMESPACE", "METRICS_DOMAIN"} :
        key \in DOMAIN args.environ /\ args.environ[key] # ""

C9_PanicCase ==
    /\ ContainerReturned
    /\ ~ProbeDeclared
    /\ "SYSTEM_NAMESPACE" \notin DOMAIN args.environ
    /\ ret.panic = [unset |-> "SYSTEM_NAMESPACE"]
    /\ ret.c = Nil
    /\ ret.err = Nil

\* C10: when a readiness probe is declared, the sidecar's readiness probe
\* has one handler, an HTTP GET on the serving port (the port of the
\* serving entry of Ports and of QUEUE_SERVING_PORT, the HTTP2 port exactly
\* for the protocol h2c) with the identifying probe header as its only
\* header and no host, path or scheme; it is nil when none is declared.
C10_SidecarProbe ==
    (ContainerReturned /\ ret.c # Nil) =>
        LET h2c   == args.rev.protocol = "h2c"
            port  == IF h2c THEN 8013 ELSE 8012
            text  == IF h2c THEN <<"8", "0", "1", "3">>
                     ELSE <<"8", "0", "1", "2">>
            ports == ret.c.Ports
            probe == ret.c.ReadinessProbe
        IN  /\ ports[Len(ports)] =
                   [Name |-> "queue-port", ContainerPort |-> port]
            /\ \A i \in 1..(Len(ports) - 1) : ports[i].Name # "queue-port"
            /\ EnvValue("QUEUE_SERVING_PORT") = text
            /\ ~ProbeDeclared => probe = Nil
            /\ ProbeDeclared =>
                   /\ probe # Nil
                   /\ probe.HTTPGet =
                          [Path        |-> "",
                           Port        |-> [Type |-> "Int", IntVal |-> port,
                                            StrVal |-> ""],
                           Host        |-> "",
                           Scheme      |-> "",
                           HTTPHeaders |-> <<[Name  |-> "K-Network-Probe",
                                              Value |-> "queue"]>>]
                   /\ probe.TCPSocket = Nil
                   /\ probe.Exec = Nil

\* A user exec probe under the protocol h2c: the sidecar probes 8013.
C10_Witness ==
    /\ ContainerReturned
    /\ ret.c # Nil
    /\ ProbeDeclared
    /\ args.rev.container.ReadinessProbe.Exec # Nil
    /\ args.rev.container.ReadinessProbe.HTTPGet = Nil
    /\ args.rev.protocol = "h2c"
    /\ ret.c.ReadinessProbe.HTTPGet.Port.IntVal = 8013
    /\ ret.c.ReadinessProbe.Exec = Nil

-----------------------------------------------------------------------------
(* Requests against limits in the result of createQueueResources.          *)

\* a <= b on quantities.
QuantityLeq(a, b) == ~QuantityLess(b, a)

\* The configured pairs of one resource name.
ConfigPairs ==
    {[request |-> "QueueSidecarCPURequest", limit |-> "QueueSidecarCPULimit"],
     [request |-> "QueueSidecarMemoryRequest",
      limit   |-> "QueueSidecarMemoryLimit"],
     [request |-> "QueueSidecarEphemeralStorageRequest",
      limit   |-> "QueueSidecarEphemeralStorageLimit"]}

\* No configured request exceeds the configured limit of its resource.
ConfigOrdered ==
    \A p \in ConfigPairs :
        (args.cfg[p.request] # Nil /\ args.cfg[p.limit] # Nil) =>
            QuantityLeq(args.cfg[p.request], args.cfg[p.limit])

\* The user container's request does not exceed its limit, read as the
\* code reads them: an absent quantity is zero.
UserOrdered ==
    \A name \in {ResourceCPU, ResourceMemory} :
        QuantityLeq(Lookup(args.userContainer.Resources.Requests, name),
                    Lookup(args.userContainer.Resources.Limits, name))

\* The result holds both a request and a limit of the name.
BothPresent(name) ==
    /\ name \in DOMAIN ResultList("Requests")
    /\ name \in DOMAIN ResultList("Limits")

RequestWithinLimit(name) ==
    BothPresent(name) =>
        QuantityLeq(ResultList("Requests")[name], ResultList("Limits")[name])

\* C11 as stated: when no configured request exceeds its configured limit
\* and the user container's requests do not exceed its limits, then for
\* every annotation value the result has request <= limit for CPU and for
\* memory whenever it holds both, also when one of the two is derived from
\* the percentage and the other is the configured quantity.
C11_RequestWithinLimit ==
    (ResourcesReturned /\ ConfigOrdered /\ UserOrdered) =>
        \A name \in {ResourceCPU, ResourceMemory} : RequestWithinLimit(name)

\* The user's quantities of the name are not below zero and of at most
\* MaxInt64 whole units.
UserInRange(name) ==
    \A kind \in {"Requests", "Limits"} :
        /\ ~BelowZero(Lookup(args.userContainer.Resources[kind], name))
        /\ Leq(MilliOf(Lookup(args.userContainer.Resources[kind], name)),
               MulSmall(MaxInt64, 1000))

\* What holds of the code: the request does not exceed the limit when both
\* are the configured quantities, or both are derived from the percentage
\* and from user quantities in that range.
C11_SameOriginOrdered ==
    (ResourcesReturned /\ ConfigOrdered /\ UserOrdered) =>
        \A name \in {ResourceCPU, ResourceMemory} :
            (~ret.ok
             \/ /\ UserInRange(name)
                /\ IsZero(Lookup(args.userContainer.Resources.Requests, name))
                       <=> IsZero(Lookup(args.userContainer.Resources.Limits,
                                         name)))
                => RequestWithinLimit(name)

\* 25%, a configured CPU request of 100m and limit of 200m, a user CPU limit
\* of 200m and no user CPU request: the request stays 100m and the limit
\* becomes 50m.
C11_MixedCase ==
    /\ ResourcesReturned
    /\ ConfigOrdered /\ UserOrdered
    /\ AnnotationValue = <<"2", "5">>
    /\ args.cfg.QueueSidecarCPURequest = Milli(100)
    /\ args.cfg.QueueSidecarCPULimit = Milli(200)
    /\ IsZero(Lookup(args.userContainer.Resources.Requests, ResourceCPU))
    /\ Lookup(args.userContainer.Resources.Limits, ResourceCPU) = Milli(200)
    /\ ret.resources.Requests[ResourceCPU] = Milli(100)
    /\ ret.resources.Limits[ResourceCPU] = Milli(50)

=============================================================================
